---- MODULE Spec2Model ----
(***************************************************************************)
(* Model of the phase-2 pipeline of src/app.py: the RateLimitedExecutor    *)
(* (two semaphores, one lock, the stats), get_serp_raw,                    *)
(* analyze_strategy_raw / repair_json, process_single_keyword, and the     *)
(* thread-pool batch with its collection and rendering loops.              *)
(*                                                                         *)
(* Time is counted in units of half a second (the step of the              *)
(* "Gemini interval" slider).  Instead of an absolute clock the model      *)
(* keeps what the code computes from it: the time elapsed since            *)
(* gemini_last_call, and the time each sleeping thread still has to        *)
(* sleep.  Both are capped, so time can pass for ever.                      *)
(***************************************************************************)
EXTENDS Integers, Sequences, FiniteSets, TLC

\* ------------------------------------------------------------------ settings
MAX_CONCURRENT_SERP == 1
MAX_CONCURRENT_GEMINI == 1
GEMINI_MIN_INTERVAL == 1
MAX_PAGES == 2
max_retries == 3
PageSize == 10
DescLimit == 200
SerpDelay == 1
PageDelay == 1

\* bounds of the model
NumKeywords == 3
MaxCalls == 1
MaxFailing == 1
MaxInterval == 4
BatchItems == 2

\* a pool with a thread for every keyword
max_workers_per_keyword == NumKeywords

\* line 773: max(MAX_CONCURRENT_SERP, MAX_CONCURRENT_GEMINI) + 1
max_workers ==
  (IF MAX_CONCURRENT_SERP > MAX_CONCURRENT_GEMINI
     THEN MAX_CONCURRENT_SERP ELSE MAX_CONCURRENT_GEMINI) + 1

Workers == 1..max_workers
NoTask == 0

\* ------------------------------------------------------------------ values
None == << >>
Some(x) == << x >>

Min(a, b) == IF a < b THEN a ELSE b
Max(a, b) == IF a > b THEN a ELSE b

\* character strings are sequences of one-character strings
UpperCase == << "A", "B", "C", "D", "E", "F", "G", "H", "I", "J", "K", "L", "M",
                "N", "O", "P", "Q", "R", "S", "T", "U", "V", "W", "X", "Y", "Z" >>
LowerCase == << "a", "b", "c", "d", "e", "f", "g", "h", "i", "j", "k", "l", "m",
                "n", "o", "p", "q", "r", "s", "t", "u", "v", "w", "x", "y", "z" >>

LowerChar(c) ==
  IF \E i \in 1..26 : UpperCase[i] = c
    THEN LowerCase[CHOOSE i \in 1..26 : UpperCase[i] = c]
    ELSE c

Lower(s) == [i \in 1..Len(s) |-> LowerChar(s[i])]

Contains(s, sub) ==
  \E i \in 1..(Len(s) - Len(sub) + 1) : SubSeq(s, i, i + Len(sub) - 1) = sub

RateMarkers ==
  { << "4", "2", "9" >>,
    << "q", "u", "o", "t", "a" >>,
    << "r", "a", "t", "e" >>,
    << "l", "i", "m", "i", "t" >> }

\* a test on the text as it is, not lower-cased
is_rate_limit_as_written(msg) == \E x \in RateMarkers : Contains(msg, x)

\* lines 139-140: error_str = str(e).lower(); any(x in error_str for x in [...])
is_rate_limit(msg) == \E x \in RateMarkers : Contains(Lower(msg), x)

SerpPrefix == << "S", "E", "R", "P", ":", " " >>
GeminiPrefix == << "G", "e", "m", "i", "n", "i", ":", " " >>

\* messages of the exceptions the external services raise in the model
Msg429 == << "4", "2", "9" >>
MsgQuota == << "Q", "u", "o", "t", "a" >>
MsgTimeout == << "t", "i", "m", "e", "o", "u", "t" >>
MsgGenerate == << "G", "e", "n", "e", "r", "a", "t", "e" >>
MsgKeyError == << "K", "e", "y", "E", "r", "r", "o", "r" >>

\* JSON values as json.loads returns them: an object with its keys, or null.
\* err and raw carry the values of the "error" and "raw_response" keys.
SchemaKeys ==
  { "User_Intent", "Battlefield_Status", "Opportunity_Gap",
    "Recommended_Page_Type", "Winning_Angles", "Killer_Titles" }

JObject(keys) == [kind |-> "object", keys |-> keys, err |-> << >>, raw |-> None]
JNull == [kind |-> "null", keys |-> {}, err |-> << >>, raw |-> None]
FullReport == JObject(SchemaKeys)
PartialReport == JObject({"User_Intent"})

\* Python truthiness of a parsed value: None and {} are falsy
Truthy(j) == j.kind = "object" /\ j.keys # {}

\* a text returned by the generative model: JSON (or not), fenced or bare
Text(fence, valid, json) == [fence |-> fence, valid |-> valid, json |-> json]
BrokenText == Text(FALSE, FALSE, JNull)

\* the local variable raw: the model's text, or str(e)
RawText(t) == [text |-> Some(t), msg |-> << >>]
RawMsg(m) == [text |-> None, msg |-> m]

\* outcome of calling a function: a returned value or a raised exception
Ok(v) == [kind |-> "ok", val |-> Some(v), msg |-> << >>]
Raise(m) == [kind |-> "raise", val |-> None, msg |-> m]
NoRet == [kind |-> "none", val |-> None, msg |-> << >>]

\* ------------------------------------------------------------------ state
VARIABLES
  serp_semaphore,   \* permits left of self.serp_semaphore
  gemini_semaphore, \* permits left of self.gemini_semaphore
  lock,             \* holder of self.lock, 0 when free
  gemini_min_interval, \* self.gemini_min_interval, in half seconds
  elapsed,          \* time.time() - self.gemini_last_call, capped
  stats,            \* self.stats
  loaded,           \* per thread: the value its += 1 has read from self.stats, if any
  pc,               \* where each thread is
  fn,               \* the function the thread passed to the executor
  task,             \* index in keywords of the keyword the thread works on
  attempt,          \* loop variable of call_gemini
  timer,            \* what is left of the thread's time.sleep
  page,             \* loop variable of get_serp_raw
  results,          \* local list results of get_serp_raw
  ret,              \* outcome of the thread's last executor call
  exc,              \* the exception e an except block handles
  raw,              \* local raw of analyze_strategy_raw
  result,           \* local result of process_single_keyword
  res_text,         \* res.text of a generate_content call whose text is cleaned and parsed
  cleaned,          \* local cleaned (text in repair_json), if computed
  decoded,          \* outcome of json.loads(cleaned)
  input_lines,      \* keywords_input.split("\n"): the lines of the text area
  keywords,         \* the deduplicated keyword list
  mainpc,           \* where the main thread is
  shown,            \* what the statistics expander has read from executor.stats, if shown
  outcomes,         \* history: how many invocations of call_serp and call_gemini have returned and raised
  queue,            \* work items submitted to the pool, not yet started
  futures,          \* per submitted keyword: the finished task's result
  yielded,          \* the futures the as_completed loop has yielded
  all_results,      \* the OrderedDict all_results, as its items in order
  ridx,             \* position of the rendering loop in keywords
  rendered,         \* keywords whose section was rendered, in order
  reports,          \* the list reports
  failing,          \* the keywords an external service has failed so far
  fetch_raised,     \* history: the keywords whose call_serp raised
  calls,            \* history: executor calls each direct caller has made
  inv,              \* history: invocations of func in the thread's call
  allrate,          \* history: every invocation so far raised a rate-limit error
  retr,             \* history: gemini_retries increments of the thread's call
  errs,             \* history: error entries appended by the thread's call
  since_invoke,     \* history: time since func was last invoked in call_gemini
  page_log,         \* history: what the search API returned to the thread's get_serp_raw
  item_log,         \* history: the items the search API returned to it, in order
  gen_log,          \* history: what generate_content did in the thread's call_gemini
  repair_log,       \* history: the calls of repair_json in it: arguments and value
  entries,          \* history: per keyword, how often its task ran and entered each call
  requests          \* history: the page requests sent to the search API

dvars == << serp_semaphore, gemini_semaphore, gemini_min_interval, loaded, lock, elapsed, stats >>
wvars == << fn, task, attempt, timer, page, results, ret, exc, raw, result >>
tvars == << res_text, cleaned, decoded >>
bvars == << input_lines, keywords, mainpc, queue, futures, yielded, all_results, ridx, rendered, reports, shown >>
mvars == << tvars, bvars, failing, fetch_raised >>
hvars == << calls, inv, allrate, retr, errs, since_invoke, page_log, item_log, gen_log, repair_log, entries, outcomes, requests >>
vars == << dvars, pc, wvars, mvars, hvars >>

\* one field of a per-thread variable
Set(f, w, v) == [f EXCEPT ![w] = v]

\* the history of keyword k counts one more of what: "runs", "serp" or "gemini"
Entered(k, what) ==
  IF k \in DOMAIN entries THEN [entries EXCEPT ![k][what] = @ + 1] ELSE entries

\* ------------------------------------------------------------------ time
SleepingAt == { "serp_sleep", "serp_page_sleep", "gemini_gate_sleep", "gemini_backoff" }

\* half a second passes: sleeps get shorter, the last generate call gets older
Tick ==
  /\ timer' = [w \in Workers |->
                 IF pc[w] \in SleepingAt /\ timer[w] > 0 THEN timer[w] - 1 ELSE timer[w]]
  /\ elapsed' = Min(elapsed + 1, gemini_min_interval)
  /\ since_invoke' = Min(since_invoke + 1, gemini_min_interval)
  /\ UNCHANGED << serp_semaphore, gemini_semaphore, gemini_min_interval, loaded, lock, stats, pc >>
  /\ UNCHANGED << fn, task, attempt, page, results, ret, exc, raw, result >>
  /\ UNCHANGED << mvars, calls, inv, allrate, retr, errs, page_log, item_log, gen_log, repair_log, entries, outcomes, requests >>


\* a semaphore that lets one thread too many in
SerpSlotFreeOffByOne == serp_semaphore >= 0

\* with self.serp_semaphore: blocks while no permit is left
SerpSlotFree == serp_semaphore > 0

\* ------------------------------------------------------------------ call_serp
SerpAcquire(w) ==
  /\ pc[w] = "serp_acquire"
  /\ SerpSlotFree
  /\ serp_semaphore' = serp_semaphore - 1
  /\ pc' = Set(pc, w, "serp_func")
  /\ page' = Set(page, w, 0)
  /\ results' = Set(results, w, << >>)
  /\ inv' = Set(inv, w, inv[w] + 1)
  /\ entries' = Entered(task[w], "serp")
  /\ UNCHANGED << gemini_semaphore, gemini_min_interval, loaded, lock, elapsed, stats >>
  /\ UNCHANGED << fn, task, attempt, timer, ret, exc, raw, result >>
  /\ UNCHANGED << mvars >>
  /\ UNCHANGED << calls, allrate, retr, errs, since_invoke, outcomes, page_log, item_log, gen_log, repair_log, requests >>

\* func returned v inside call_serp
SerpFuncReturned(w, v) ==
  /\ ret' = Set(ret, w, Ok(v))
  /\ pc' = Set(pc, w, "serp_count")

\* func raised an exception with message m inside call_serp
SerpFuncRaised(w, m) ==
  /\ exc' = Set(exc, w, m)
  /\ pc' = Set(pc, w, "serp_except")

\* the lock is free for a with-block that updates the stats
StatsLockIgnored == TRUE

\* with self.lock: the block is entered when the lock is free
StatsLockFree == lock = 0

\* self.stats[key] += 1 reads the counter, adds one and writes it back: thread
\* w takes the lock and reads
LoadCount(w, key) ==
  /\ loaded[w] = None
  /\ StatsLockFree
  /\ lock' = w
  /\ loaded' = Set(loaded, w, Some(stats[key]))
  /\ UNCHANGED << serp_semaphore, gemini_semaphore, gemini_min_interval, elapsed, stats >>
  /\ UNCHANGED << pc, wvars, mvars, hvars >>

\* with self.lock: around stats["errors"].append, which changes the list in
\* place: thread w takes the lock
EnterStatsBlock(w) ==
  /\ lock # w
  /\ StatsLockFree
  /\ lock' = w
  /\ UNCHANGED << serp_semaphore, gemini_semaphore, gemini_min_interval, loaded, elapsed, stats >>
  /\ UNCHANGED << pc, wvars, mvars, hvars >>

\* and writes the sum back; the with-block ends
StoreCount(w, key) ==
  /\ loaded[w] # None
  /\ stats' = [stats EXCEPT ![key] = loaded[w][1] + 1]
  /\ lock' = 0
  /\ loaded' = Set(loaded, w, None)

\* lines 111-112
SerpCountLoad(w) ==
  /\ pc[w] = "serp_count"
  /\ LoadCount(w, "serp_calls")

\* line 113 follows
SerpCount(w) ==
  /\ pc[w] = "serp_count"
  /\ StoreCount(w, "serp_calls")
  /\ timer' = Set(timer, w, SerpDelay)
  /\ pc' = Set(pc, w, "serp_sleep")
  /\ UNCHANGED << serp_semaphore, gemini_semaphore, gemini_min_interval, elapsed >>
  /\ UNCHANGED << fn, task, attempt, page, results, ret, exc, raw, result >>
  /\ UNCHANGED << mvars, hvars >>

SerpReturn(w) ==
  /\ pc[w] = "serp_sleep"
  /\ timer[w] = 0
  /\ serp_semaphore' = serp_semaphore + 1
  /\ pc' = Set(pc, w, "after_serp")
  /\ outcomes' = [outcomes EXCEPT !.serp_returned = @ + 1]
  /\ UNCHANGED << gemini_semaphore, gemini_min_interval, loaded, lock, elapsed, stats >>
  /\ UNCHANGED << wvars, mvars >>
  /\ UNCHANGED << calls, inv, allrate, retr, errs, since_invoke, page_log, item_log, gen_log, repair_log, entries, requests >>

\* line 116
SerpErrorLock(w) ==
  /\ pc[w] = "serp_except"
  /\ EnterStatsBlock(w)

\* line 117
SerpRecordError(w) ==
  /\ pc[w] = "serp_except"
  /\ lock = w
  /\ lock' = 0
  /\ stats' = [stats EXCEPT !.errors = Append(@, SerpPrefix \o exc[w])]
  /\ errs' = Set(errs, w, errs[w] + 1)
  /\ pc' = Set(pc, w, "serp_raise")
  /\ UNCHANGED << serp_semaphore, gemini_semaphore, gemini_min_interval, loaded, elapsed >>
  /\ UNCHANGED << wvars, mvars >>
  /\ UNCHANGED << calls, inv, allrate, retr, since_invoke, outcomes, page_log, item_log, gen_log, repair_log, entries, requests >>


\* a slot that is released by hand after the call and so not on a raise
SerpExitKeepingSlot(w) == serp_semaphore

\* the with-block of the semaphore releases it on the way out of the raise
SerpExitRaising(w) == serp_semaphore + 1

SerpRaise(w) ==
  /\ pc[w] = "serp_raise"
  /\ serp_semaphore' = SerpExitRaising(w)
  /\ ret' = Set(ret, w, Raise(exc[w]))
  /\ pc' = Set(pc, w, "after_serp")
  /\ outcomes' = [outcomes EXCEPT !.raised = @ + 1]
  /\ UNCHANGED << gemini_semaphore, gemini_min_interval, loaded, lock, elapsed, stats >>
  /\ UNCHANGED << fn, task, attempt, timer, page, results, exc, raw, result >>
  /\ UNCHANGED << mvars >>
  /\ UNCHANGED << calls, inv, allrate, retr, errs, since_invoke, page_log, item_log, gen_log, repair_log, entries, requests >>

\* ------------------------------------------------------------------ call_gemini
JitterMin == 1
JitterMax == 3

\* wait_time = (2 ** attempt) + random.uniform(0.5, 1.5), in half seconds
Pow2(n) == IF n = 0 THEN 1 ELSE IF n = 1 THEN 2 ELSE IF n = 2 THEN 4 ELSE 8
WaitTimes(a) == { 2 * Pow2(a) + j : j \in JitterMin..JitterMax }

GeminiAcquire(w) ==
  /\ pc[w] = "gemini_acquire"
  /\ gemini_semaphore > 0
  /\ gemini_semaphore' = gemini_semaphore - 1
  /\ pc' = Set(pc, w, "gemini_gate_lock")
  /\ entries' = Entered(task[w], "gemini")
  /\ UNCHANGED << serp_semaphore, gemini_min_interval, loaded, lock, elapsed, stats >>
  /\ UNCHANGED << wvars, mvars >>
  /\ UNCHANGED << calls, inv, allrate, retr, errs, since_invoke, outcomes, page_log, item_log, gen_log, repair_log, requests >>

\* a gate that never sleeps
GateSleepNone(e) == 0

\* lines 125-127: what time.sleep is asked for at the minimum-interval gate
GateSleep(e) == IF e < gemini_min_interval THEN gemini_min_interval - e ELSE 0

\* a gate that gives the lock back before it sleeps
GateLockDropped(w) == 0

\* lines 124-127: time.sleep is called inside the with-block of self.lock
GateLockHeld(w) == w

GeminiGateLock(w) ==
  /\ pc[w] = "gemini_gate_lock"
  /\ lock = 0
  /\ lock' = GateLockHeld(w)
  /\ timer' = Set(timer, w, GateSleep(elapsed))
  /\ pc' = Set(pc, w, "gemini_gate_sleep")
  /\ UNCHANGED << serp_semaphore, gemini_semaphore, gemini_min_interval, loaded, elapsed, stats >>
  /\ UNCHANGED << fn, task, attempt, page, results, ret, exc, raw, result >>
  /\ UNCHANGED << mvars, hvars >>

\* self.gemini_last_call = time.time(), and the lock's with-block ends
GeminiGateSet(w) ==
  /\ pc[w] = "gemini_gate_sleep"
  /\ timer[w] = 0
  /\ elapsed' = 0
  /\ lock' = 0
  /\ attempt' = Set(attempt, w, 0)
  /\ pc' = Set(pc, w, "gemini_loop")
  /\ UNCHANGED << serp_semaphore, gemini_semaphore, gemini_min_interval, loaded, stats >>
  /\ UNCHANGED << fn, task, timer, page, results, ret, exc, raw, result >>
  /\ UNCHANGED << mvars, hvars >>

\* for attempt in range(max_retries): func is invoked; after the loop the
\* "last attempt" of line 153 invokes it once more, outside any try
GeminiInvoke(w) ==
  /\ pc[w] = "gemini_loop"
  /\ pc' = Set(pc, w, "gemini_func")
  /\ inv' = Set(inv, w, inv[w] + 1)
  /\ since_invoke' = 0
  /\ UNCHANGED << dvars, wvars, mvars >>
  /\ UNCHANGED << calls, allrate, retr, errs, page_log, item_log, gen_log, repair_log, entries, outcomes, requests >>


\* a retry loop that is one iteration too long
RetriedOnceMore(m, a) == is_rate_limit(m) /\ a < max_retries

\* is the exception retried: line 142
Retried(m, a) == is_rate_limit(m) /\ a < max_retries - 1

\* func returned v inside call_gemini
GeminiFuncReturned(w, v) ==
  /\ ret' = Set(ret, w, Ok(v))
  /\ allrate' = Set(allrate, w, FALSE)
  /\ pc' = Set(pc, w, IF attempt[w] < max_retries THEN "gemini_count" ELSE "gemini_exit")
  /\ UNCHANGED << exc, timer >>

\* func raised an exception with message m inside call_gemini
GeminiFuncRaised(w, m) ==
  /\ exc' = Set(exc, w, m)
  /\ allrate' = Set(allrate, w, allrate[w] /\ is_rate_limit(m))
  /\ IF attempt[w] >= max_retries
       THEN /\ ret' = Set(ret, w, Raise(m))
            /\ pc' = Set(pc, w, "gemini_exit")
            /\ UNCHANGED timer
       ELSE /\ IF Retried(m, attempt[w])
                 THEN /\ \E t \in WaitTimes(attempt[w]) : timer' = Set(timer, w, t)
                      /\ pc' = Set(pc, w, "gemini_retry")
                 ELSE /\ pc' = Set(pc, w, "gemini_except")
                      /\ UNCHANGED timer
            /\ UNCHANGED ret

\* lines 135-136
GeminiCountLoad(w) ==
  /\ pc[w] = "gemini_count"
  /\ LoadCount(w, "gemini_calls")

GeminiCount(w) ==
  /\ pc[w] = "gemini_count"
  /\ StoreCount(w, "gemini_calls")
  /\ pc' = Set(pc, w, "gemini_exit")
  /\ UNCHANGED << serp_semaphore, gemini_semaphore, gemini_min_interval, elapsed >>
  /\ UNCHANGED << wvars, mvars, hvars >>

\* lines 144-145
GeminiRetryLoad(w) ==
  /\ pc[w] = "gemini_retry"
  /\ LoadCount(w, "gemini_retries")

GeminiCountRetry(w) ==
  /\ pc[w] = "gemini_retry"
  /\ StoreCount(w, "gemini_retries")
  /\ retr' = Set(retr, w, retr[w] + 1)
  /\ pc' = Set(pc, w, "gemini_backoff")
  /\ UNCHANGED << serp_semaphore, gemini_semaphore, gemini_min_interval, elapsed >>
  /\ UNCHANGED << wvars, mvars >>
  /\ UNCHANGED << calls, inv, allrate, errs, since_invoke, outcomes, page_log, item_log, gen_log, repair_log, entries, requests >>

\* a retry that starts at the minimum-interval gate again
RetryFromGate == "gemini_gate_lock"

\* line 138: the for loop goes on with its next iteration, after the gate
RetryFromLoop == "gemini_loop"

\* time.sleep(wait_time) is over: the next iteration of the loop
GeminiBackoffDone(w) ==
  /\ pc[w] = "gemini_backoff"
  /\ timer[w] = 0
  /\ attempt' = Set(attempt, w, attempt[w] + 1)
  /\ pc' = Set(pc, w, RetryFromLoop)
  /\ UNCHANGED << dvars, mvars, hvars >>
  /\ UNCHANGED << fn, task, timer, page, results, ret, exc, raw, result >>

\* line 148
GeminiErrorLock(w) ==
  /\ pc[w] = "gemini_except"
  /\ EnterStatsBlock(w)

\* line 149
GeminiRecordError(w) ==
  /\ pc[w] = "gemini_except"
  /\ lock = w
  /\ lock' = 0
  /\ stats' = [stats EXCEPT !.errors = Append(@, GeminiPrefix \o exc[w])]
  /\ errs' = Set(errs, w, errs[w] + 1)
  /\ ret' = Set(ret, w, Raise(exc[w]))
  /\ pc' = Set(pc, w, "gemini_exit")
  /\ UNCHANGED << serp_semaphore, gemini_semaphore, gemini_min_interval, loaded, elapsed >>
  /\ UNCHANGED << fn, task, attempt, timer, page, results, exc, raw, result >>
  /\ UNCHANGED << mvars >>
  /\ UNCHANGED << calls, inv, allrate, retr, since_invoke, outcomes, page_log, item_log, gen_log, repair_log, entries, requests >>

\* an exit that does not release the semaphore
GeminiExitKeepingSlot(w) == gemini_semaphore

\* with self.gemini_semaphore: the permit is given back on every exit
GeminiExitReleasing(w) == gemini_semaphore + 1

\* the with-block of the semaphore ends: by a return or by a raise
GeminiExit(w) ==
  /\ pc[w] = "gemini_exit"
  /\ gemini_semaphore' = GeminiExitReleasing(w)
  /\ pc' = Set(pc, w, "after_gemini")
  /\ outcomes' = IF ret[w].kind = "raise"
                   THEN [outcomes EXCEPT !.raised = @ + 1]
                   ELSE [outcomes EXCEPT !.gemini_returned = @ + 1]
  /\ UNCHANGED << serp_semaphore, gemini_min_interval, loaded, lock, elapsed, stats >>
  /\ UNCHANGED << wvars, mvars >>
  /\ UNCHANGED << calls, inv, allrate, retr, errs, since_invoke, page_log, item_log, gen_log, repair_log, entries, requests >>

\* ------------------------------------------------------------------ detect_page_type
\* the substrings detect_page_type looks for
\* Chinese characters are written as one sequence element each
ForumLinks ==
  { << "p", "t", "t", ".", "c", "c" >>,
    << "d", "c", "a", "r", "d" >>,
    << "r", "e", "d", "d", "i", "t" >>,
    << "m", "o", "b", "i", "l", "e", "0", "1" >> }
SocialLinks ==
  { << "y", "o", "u", "t", "u", "b", "e", ".", "c", "o", "m" >>,
    << "i", "n", "s", "t", "a", "g", "r", "a", "m", ".", "c", "o", "m" >>,
    << "t", "i", "k", "t", "o", "k", ".", "c", "o", "m" >> }
ShopLinks ==
  { << "s", "h", "o", "p", "e", "e" >>,
    << "m", "o", "m", "o" >>,
    << "p", "c", "h", "o", "m", "e" >>,
    << "a", "m", "a", "z", "o", "n" >>,
    << "/", "p", "r", "o", "d", "u", "c", "t", "/" >> }
MediaLinks ==
  { << "u", "d", "n", ".", "c", "o", "m" >>,
    << "l", "t", "n", ".", "c", "o", "m" >>,
    << "e", "t", "t", "o", "d", "a", "y" >>,
    << "/", "n", "e", "w", "s", "/" >> }
WikiLink == << "w", "i", "k", "i" >>
PriceTitles == { << "jia4", "ge2" >>, << "you1", "hui4" >>, << "tui1", "jian4" >> }

\* a classifier that looks at the title before the links
detect_page_type_title_first(item) ==
  LET link == Lower(item.link)
      title == Lower(item.title)
  IN  IF \E x \in PriceTitles : Contains(title, x) THEN "Commercial Content"
      ELSE IF \E x \in ForumLinks : Contains(link, x) THEN "UGC / Forum"
      ELSE IF \E x \in SocialLinks : Contains(link, x) THEN "Social / Video"
      ELSE IF \E x \in ShopLinks : Contains(link, x) THEN "E-commerce"
      ELSE IF \E x \in MediaLinks : Contains(link, x) THEN "Media"
      ELSE IF Contains(link, WikiLink) THEN "Wiki"
      ELSE "General"

\* lines 294-311
detect_page_type(item) ==
  LET link == Lower(item.link)
      title == Lower(item.title)
  IN  IF \E x \in ForumLinks : Contains(link, x) THEN "UGC / Forum"
      ELSE IF \E x \in SocialLinks : Contains(link, x) THEN "Social / Video"
      ELSE IF \E x \in ShopLinks : Contains(link, x) THEN "E-commerce"
      ELSE IF \E x \in MediaLinks : Contains(link, x) THEN "Media"
      ELSE IF Contains(link, WikiLink) THEN "Wiki"
      ELSE IF \E x \in PriceTitles : Contains(title, x) THEN "Commercial Content"
      ELSE "General"

\* ------------------------------------------------------------------ get_serp_raw
Ellipsis == << ".", ".", "." >>

\* the cut applied from 200 characters on
DescriptionCutFromLimit(item) ==
  IF Len(item.snippet) >= DescLimit
    THEN SubSeq(item.snippet, 1, DescLimit) \o Ellipsis
    ELSE item.snippet

\* desc = item.get("snippet", "") or "", cut at 200 characters
Description(item) ==
  IF Len(item.snippet) > DescLimit
    THEN SubSeq(item.snippet, 1, DescLimit) \o Ellipsis
    ELSE item.snippet

\* start = page * 10 + 1
StartIndex(p) == p * PageSize + 1


\* the rank as the position within the page
RankInPage(start, i) == i + 1

\* "Rank": start + i, for the i-th item of the page counted from 0
Rank(start, i) == start + i

ResultItem(start, i, item) ==
  [ Rank |-> Rank(start, i),
    Type |-> detect_page_type(item),
    Title |-> item.title,
    Description |-> Description(item),
    DisplayLink |-> item.displayLink,
    URL |-> item.link ]

\* the rows one page of items adds to results
PageRows(start, items) ==
  [n \in 1..Len(items) |-> ResultItem(start, n - 1, items[n])]

\* a fetch that stops after its first page
MorePagesOnce(p, items) == FALSE

\* is another page fetched after page p returned items
MorePages(p, items) == p < MAX_PAGES - 1

\* one iteration of the page loop: the search API answers resp, a page of
\* items or an exception
FetchPage(w, resp) ==
  /\ pc[w] = "serp_func"
  /\ fn[w] = "get_serp_raw"
  /\ IF resp.kind = "raise"
       THEN /\ SerpFuncRaised(w, resp.msg)
            /\ page_log' = Set(page_log, w, Append(page_log[w], -1))
            /\ UNCHANGED item_log
            /\ UNCHANGED << results, ret, timer >>
       ELSE LET items == resp.val[1]
                rows == results[w] \o PageRows(StartIndex(page[w]), items)
            IN  /\ results' = Set(results, w, IF MorePages(page[w], items) THEN rows ELSE << >>)
                /\ page_log' = Set(page_log, w, Append(page_log[w], Len(items)))
                /\ item_log' = Set(item_log, w, item_log[w] \o items)
                /\ IF MorePages(page[w], items)
                     THEN /\ timer' = Set(timer, w, PageDelay)
                          /\ pc' = Set(pc, w, "serp_page_sleep")
                          /\ UNCHANGED ret
                     ELSE /\ SerpFuncReturned(w, rows)
                          /\ UNCHANGED timer
                /\ UNCHANGED exc
  /\ UNCHANGED << dvars, tvars, bvars, fetch_raised >>
  /\ UNCHANGED << fn, task, attempt, page, raw, result >>
  /\ requests' = requests + 1
  /\ UNCHANGED << calls, inv, allrate, retr, errs, since_invoke, outcomes, gen_log, repair_log, entries >>

\* time.sleep(0.8) between two pages is over
PageSleepDone(w) ==
  /\ pc[w] = "serp_page_sleep"
  /\ timer[w] = 0
  /\ page' = Set(page, w, page[w] + 1)
  /\ pc' = Set(pc, w, "serp_func")
  /\ UNCHANGED << dvars, mvars, hvars >>
  /\ UNCHANGED << fn, task, attempt, timer, results, ret, exc, raw, result >>

\* ------------------------------------------------------------------ analyze_strategy_raw
MsgJson == << "E", "x", "p", "e", "c", "t", "i", "n", "g" >>

\* {"error": str(e)} and {"error": str(e), "raw_response": raw}
ErrorOnly(m) ==
  [kind |-> "object", keys |-> {"error"}, err |-> m, raw |-> None]
ErrorWithRaw(m, r) ==
  [kind |-> "object", keys |-> {"error", "raw_response"}, err |-> m, raw |-> Some(r)]

\* json.loads of the text without its code-fence markers
ParseJson(t) == IF t.valid THEN Ok(t.json) ELSE Raise(MsgJson)

\* the selected columns of an empty DataFrame do not exist: KeyError
ColumnsMissing(rows) == Len(rows) = 0

\* lines 374-407 and 413-414: the prompt is built from df and generate_content
\* answers o, a text or an exception
AnalyzeGenerate(w, o) ==
  /\ pc[w] = "gemini_func"
  /\ fn[w] = "analyze_strategy_raw"
  /\ IF ColumnsMissing(result[w].serp_raw[1])
       THEN /\ GeminiFuncRaised(w, MsgKeyError)
            /\ UNCHANGED << raw, gen_log, repair_log, entries, requests >>
       ELSE /\ gen_log' = Set(gen_log, w, Append(gen_log[w],
                 IF o.kind = "ok" THEN "text"
                 ELSE IF is_rate_limit(o.msg) THEN "rate" ELSE "other"))
            /\ UNCHANGED repair_log
            /\ IF o.kind = "raise"
                 THEN /\ GeminiFuncReturned(w, << ErrorOnly(o.msg), RawMsg(o.msg) >>)
                      /\ UNCHANGED raw
                 ELSE LET t == o.val[1]
                          parsed == ParseJson(t)
                      IN  IF parsed.kind = "ok"
                            THEN /\ GeminiFuncReturned(w, << parsed.val[1], RawText(t) >>)
                                 /\ UNCHANGED raw
                            ELSE /\ raw' = Set(raw, w, RawText(t))
                                 /\ exc' = Set(exc, w, parsed.msg)
                                 /\ pc' = Set(pc, w, "gemini_repair")
                                 /\ UNCHANGED << ret, allrate, timer, requests >>
  /\ UNCHANGED << dvars, tvars, bvars, fetch_raised >>
  /\ UNCHANGED << fn, task, attempt, page, results, result >>
  /\ UNCHANGED << calls, inv, retr, errs, since_invoke, outcomes, page_log, item_log, entries, requests >>

\* repair_json: what the repair model's answer o is parsed to, None on any failure
repair_json(o) ==
  IF o.kind = "raise" THEN None
  ELSE LET parsed == ParseJson(o.val[1])
       IN  IF parsed.kind = "ok" THEN parsed.val ELSE None

\* a test for None only: if fixed is not None
FixedNotNone(f) == f # None /\ f[1] # JNull

\* if fixed: a parsed value that is None, null or {} is falsy
Fixed(f) == f # None /\ Truthy(f[1])

\* lines 408-412: the repair model answers o
AnalyzeRepair(w, o) ==
  /\ pc[w] = "gemini_repair"
  /\ LET fixed == repair_json(o)
     IN  IF Fixed(fixed)
           THEN GeminiFuncReturned(w, << fixed[1], raw[w] >>)
           ELSE GeminiFuncReturned(w, << ErrorWithRaw(exc[w], raw[w]), raw[w] >>)
  /\ gen_log' = Set(gen_log, w, Append(gen_log[w], "repair"))
  /\ repair_log' = Set(repair_log, w, Append(repair_log[w],
       [broken_text |-> raw[w], error |-> exc[w], fixed |-> repair_json(o)]))
  /\ UNCHANGED << dvars, tvars, bvars, fetch_raised >>
  /\ UNCHANGED << fn, task, attempt, page, results, raw, result >>
  /\ UNCHANGED << calls, inv, retr, errs, since_invoke, outcomes, page_log, item_log, entries, requests >>

\* ------------------------------------------------------------------ process_single_keyword
Batch == { "submit", "collect", "stats", "render", "done" }

NewResult(kw) ==
  [keyword |-> kw, serp_raw |-> None, strategy |-> None,
   raw_response |-> None, error |-> None, timing |-> {}]

NoResult == NewResult(<< >>)

\* a work item that stays in the queue when a thread takes it
TakenAndKept(q) == q

\* the pool's work queue once a thread has taken its first item
Taken(q) == Tail(q)

\* a pool thread takes the oldest work item and runs process_single_keyword
\* up to its call of executor.call_serp
TaskStart(w) ==
  /\ mainpc \in Batch
  /\ pc[w] = "idle"
  /\ queue # << >>
  /\ task' = Set(task, w, Head(queue))
  /\ queue' = Taken(queue)
  /\ result' = Set(result, w, NewResult(keywords[Head(queue)]))
  /\ fn' = Set(fn, w, "get_serp_raw")
  /\ pc' = Set(pc, w, "serp_acquire")
  /\ entries' = Entered(Head(queue), "runs")
  /\ UNCHANGED dvars
  /\ UNCHANGED << calls, inv, allrate, retr, errs, since_invoke, outcomes, page_log, item_log, gen_log, repair_log, requests >>
  /\ UNCHANGED << attempt, timer, page, results, ret, exc, raw >>
  /\ UNCHANGED << tvars, input_lines, keywords, mainpc, futures, yielded, all_results, ridx, rendered, reports, shown, failing, fetch_raised >>


\* an except block that swallows the exception
FailedSilently(r, m) == r

\* except Exception as e: result["error"] = str(e)
Failed(r, m) == [r EXCEPT !.error = Some(m)]

\* return result: the future of the task gets it, the thread is free again
TaskReturn(w, r) ==
  /\ futures' = [futures EXCEPT ![task[w]] = Some(r)]
  /\ pc' = Set(pc, w, "idle")
  /\ task' = Set(task, w, NoTask)
  /\ result' = Set(result, w, NoResult)
  /\ fn' = Set(fn, w, "none")
  /\ ret' = Set(ret, w, NoRet)
  /\ exc' = Set(exc, w, << >>)
  /\ raw' = Set(raw, w, RawMsg(<< >>))
  /\ results' = Set(results, w, << >>)
  /\ attempt' = Set(attempt, w, 0)
  /\ page' = Set(page, w, 0)
  /\ inv' = Set(inv, w, 0)
  /\ allrate' = Set(allrate, w, TRUE)
  /\ retr' = Set(retr, w, 0)
  /\ errs' = Set(errs, w, 0)
  /\ page_log' = Set(page_log, w, << >>)
  /\ item_log' = Set(item_log, w, << >>)
  /\ gen_log' = Set(gen_log, w, << >>)
  /\ repair_log' = Set(repair_log, w, << >>)
  /\ UNCHANGED << dvars, timer, calls, since_invoke, outcomes, entries, requests >>
  /\ UNCHANGED << tvars, input_lines, keywords, mainpc, queue, yielded, all_results, ridx, rendered, reports, shown, failing >>

\* only the rows of the first page are kept
FetchedFirstPage(r, serp_data) ==
  [r EXCEPT !.serp_raw = Some(SubSeq(serp_data, 1, Min(Len(serp_data), 1))),
            !.timing = @ \cup {"serp"}]

\* lines 494-496: serp_data goes to the result
Fetched(r, serp_data) ==
  [r EXCEPT !.serp_raw = Some(serp_data), !.timing = @ \cup {"serp"}]

\* call_serp raised: the task ends with the error; it returned: lines 494-496
\* store the rows and the task goes on to call_gemini
AfterSerp(w) ==
  /\ mainpc \in Batch
  /\ pc[w] = "after_serp"
  /\ IF ret[w].kind = "raise"
       THEN /\ TaskReturn(w, Failed(result[w], ret[w].msg))
            /\ fetch_raised' = fetch_raised \cup {task[w]}
       ELSE /\ result' = Set(result, w, Fetched(result[w], ret[w].val[1]))
            /\ fn' = Set(fn, w, "analyze_strategy_raw")
            /\ pc' = Set(pc, w, "gemini_acquire")
            /\ ret' = Set(ret, w, NoRet)
            /\ inv' = Set(inv, w, 0)
            /\ allrate' = Set(allrate, w, TRUE)
            /\ errs' = Set(errs, w, 0)
            /\ UNCHANGED << dvars, mvars >>
            /\ UNCHANGED << task, attempt, timer, page, results, exc, raw >>
            /\ UNCHANGED << calls, retr, since_invoke, outcomes, page_log, item_log, gen_log, repair_log, entries, requests >>

\* lines 503-505, or the except block when call_gemini raised
AfterGemini(w) ==
  /\ mainpc \in Batch
  /\ pc[w] = "after_gemini"
  /\ UNCHANGED fetch_raised
  /\ IF ret[w].kind = "raise"
       THEN TaskReturn(w, Failed(result[w], ret[w].msg))
       ELSE TaskReturn(w,
              [result[w] EXCEPT !.strategy = Some(ret[w].val[1][1]),
                                !.raw_response = Some(ret[w].val[1][2]),
                                !.timing = @ \cup {"gemini"}])

\* ------------------------------------------------------------------ the batch
\* pool.submit for the next keyword; after the last one the main thread
\* enters the as_completed loop
Submit ==
  /\ mainpc = "submit"
  /\ queue' = Append(queue, Len(futures) + 1)
  /\ futures' = Append(futures, None)
  /\ mainpc' = IF Len(futures) + 1 = Len(keywords) THEN "collect" ELSE "submit"
  /\ UNCHANGED << dvars, pc, wvars, hvars >>
  /\ UNCHANGED << tvars, input_lines, keywords, yielded, all_results, ridx, rendered, reports, shown, failing, fetch_raised >>

\* all_results[kw] = result on an OrderedDict: a new key goes to the end, a
\* known key keeps its place
DictHas(d, k) == \E i \in 1..Len(d) : d[i].key = k
DictSet(d, k, v) ==
  IF DictHas(d, k)
    THEN [i \in 1..Len(d) |-> IF d[i].key = k THEN [key |-> k, value |-> v] ELSE d[i]]
    ELSE Append(d, [key |-> k, value |-> v])
DictGet(d, k) ==
  IF DictHas(d, k) THEN Some(d[CHOOSE i \in 1..Len(d) : d[i].key = k].value) ELSE None

\* future.result(): process_single_keyword catches every Exception, so the
\* future of a finished task always holds its result record
Collected(k) ==
  futures[k][1]

\* one iteration of the as_completed loop, for a finished future not yet
\* yielded; after the last one the pool is left and the rendering loop starts
Collect ==
  /\ mainpc = "collect"
  /\ \E k \in (1..Len(futures)) \ yielded :
       /\ futures[k] # None
       /\ all_results' = DictSet(all_results, keywords[k], Collected(k))
       /\ yielded' = yielded \cup {k}
       /\ mainpc' = IF yielded' = 1..Len(futures) THEN "stats" ELSE "collect"
  /\ ridx' = 1
  /\ UNCHANGED << dvars, pc, wvars, hvars >>
  /\ UNCHANGED << tvars, input_lines, keywords, queue, futures, rendered, reports, shown, failing, fetch_raised >>

\* the pool's with-block ends by shutdown(wait=True): every pool thread has
\* finished its work
Joined ==
  /\ queue = << >>
  /\ \A w \in Workers : pc[w] = "idle"

\* lines 807-822: after the pool's with-block the expander shows executor.stats
ShowStats ==
  /\ mainpc = "stats"
  /\ Joined
  /\ shown' = Some(stats)
  /\ mainpc' = "render"
  /\ UNCHANGED << dvars, pc, wvars, hvars >>
  /\ UNCHANGED << tvars, input_lines, keywords, queue, futures, yielded, all_results, ridx, rendered, reports, failing, fetch_raised >>

\* if r.get("error"): a message that is not empty
HasError(r) == r.error # None /\ Len(r.error[1]) > 0

\* if strategy and "error" not in strategy
IsReport(r) ==
  /\ r.strategy # None
  /\ Truthy(r.strategy[1])
  /\ "error" \notin r.strategy[1].keys


\* rendering in the order of completion: for kw in all_results
RenderOrderCompleted == [i \in 1..Len(all_results) |-> all_results[i].key]

\* the order in which the rendering loop visits the keywords: for kw in keywords
RenderOrder == keywords

\* one iteration of the rendering loop (lines 830-904)
Render ==
  /\ mainpc = "render"
  /\ LET kw == RenderOrder[ridx]
         r == DictGet(all_results, kw)
     IN  /\ rendered' = IF r = None THEN rendered ELSE Append(rendered, kw)
         /\ reports' =
              IF r # None /\ ~HasError(r[1]) /\ IsReport(r[1])
                THEN Append(reports, [Keyword |-> kw, strategy |-> r[1].strategy[1]])
                ELSE reports
  /\ ridx' = ridx + 1
  /\ mainpc' = IF ridx = Len(RenderOrder) THEN "done" ELSE "render"
  /\ UNCHANGED << dvars, pc, wvars, hvars >>
  /\ UNCHANGED << tvars, input_lines, keywords, queue, futures, all_results, yielded, shown, failing, fetch_raised >>


\* ------------------------------------------------------------------ the keyword list
Whitespace == { " ", "\t", "\r", "\n" }

RECURSIVE LStrip(_)
LStrip(s) ==
  IF s # << >> /\ Head(s) \in Whitespace THEN LStrip(Tail(s)) ELSE s

RECURSIVE RStrip(_)
RStrip(s) ==
  IF s # << >> /\ s[Len(s)] \in Whitespace THEN RStrip(SubSeq(s, 1, Len(s) - 1)) ELSE s

Strip(s) == RStrip(LStrip(s))

\* [k.strip() for k in lines if k.strip()]
RECURSIVE Stripped(_)
Stripped(lines) ==
  IF lines = << >> THEN << >>
  ELSE IF Strip(Head(lines)) = << >> THEN Stripped(Tail(lines))
  ELSE << Strip(Head(lines)) >> \o Stripped(Tail(lines))

\* list(dict.fromkeys(ks)): the first occurrence of each key, in order
RECURSIVE FromKeys(_, _)
FromKeys(ks, seen) ==
  IF ks = << >> THEN << >>
  ELSE IF Head(ks) \in seen THEN FromKeys(Tail(ks), seen)
  ELSE << Head(ks) >> \o FromKeys(Tail(ks), seen \cup {Head(ks)})

\* the keyword list without the removal of duplicates
ParseKeywordsNoDedup(lines) == Stripped(lines)

\* line 746
ParseKeywords(lines) == FromKeys(Stripped(lines), {})

\* the text area of the model: NumKeywords different keywords, some typed with
\* blanks around them, an empty line, and the first keyword typed again
Names == << << "a" >>, << "b" >>, << "c" >>, << "d" >>, << "e" >> >>
Typed(i) == IF i % 2 = 0 THEN << " " >> \o Names[i] \o << " " >> ELSE Names[i]
keywords_input ==
  [i \in 1..NumKeywords |-> Typed(i)] \o << << " " >>, << " " >> \o Names[1] >>

\* ------------------------------------------------------------------ direct callers
\* Threads that call the executor with a function of their own, which returns
\* or raises as it likes.
GenericErrors == { MsgQuota, MsgTimeout, MsgGenerate }
GenericOutcomes == { Ok(<< >>) } \cup { Raise(m) : m \in GenericErrors }

DirectCall(w) ==
  /\ mainpc = "direct"
  /\ pc[w] = "idle"
  /\ calls[w] < MaxCalls
  /\ \E at \in { "serp_acquire", "gemini_acquire" } : pc' = Set(pc, w, at)
  /\ fn' = Set(fn, w, "generic")
  /\ ret' = Set(ret, w, NoRet)
  /\ calls' = Set(calls, w, calls[w] + 1)
  /\ inv' = Set(inv, w, 0)
  /\ allrate' = Set(allrate, w, TRUE)
  /\ retr' = Set(retr, w, 0)
  /\ errs' = Set(errs, w, 0)
  /\ UNCHANGED << dvars, mvars >>
  /\ UNCHANGED << task, attempt, timer, page, results, exc, raw, result >>
  /\ UNCHANGED << since_invoke, outcomes, page_log, item_log, gen_log, repair_log, entries, requests >>

GenericSerpFunc(w) ==
  /\ pc[w] = "serp_func"
  /\ fn[w] = "generic"
  /\ \E o \in GenericOutcomes :
       IF o.kind = "ok"
         THEN SerpFuncReturned(w, o.val[1]) /\ UNCHANGED exc
         ELSE SerpFuncRaised(w, o.msg) /\ UNCHANGED ret
  /\ UNCHANGED << dvars, mvars, hvars >>
  /\ UNCHANGED << fn, task, attempt, timer, page, results, raw, result >>

GenericGeminiFunc(w) ==
  /\ pc[w] = "gemini_func"
  /\ fn[w] = "generic"
  /\ \E o \in GenericOutcomes :
       IF o.kind = "ok"
         THEN GeminiFuncReturned(w, o.val[1])
         ELSE GeminiFuncRaised(w, o.msg)
  /\ UNCHANGED << dvars, mvars >>
  /\ UNCHANGED << fn, task, attempt, page, results, raw, result >>
  /\ UNCHANGED << calls, inv, retr, errs, since_invoke, outcomes, page_log, item_log, gen_log, repair_log, entries, requests >>

\* the call is over: the caller has its outcome, the call's locals are gone
DirectDone(w) ==
  /\ mainpc = "direct"
  /\ pc[w] \in { "after_serp", "after_gemini" }
  /\ pc' = Set(pc, w, "idle")
  /\ fn' = Set(fn, w, "none")
  /\ ret' = Set(ret, w, NoRet)
  /\ exc' = Set(exc, w, << >>)
  /\ attempt' = Set(attempt, w, 0)
  /\ inv' = Set(inv, w, 0)
  /\ allrate' = Set(allrate, w, TRUE)
  /\ retr' = Set(retr, w, 0)
  /\ errs' = Set(errs, w, 0)
  /\ UNCHANGED << dvars, mvars >>
  /\ UNCHANGED << task, timer, page, results, raw, result >>
  /\ UNCHANGED << calls, since_invoke, outcomes, page_log, item_log, gen_log, repair_log, entries, requests >>

\* ------------------------------------------------------------------ initial states
\* RateLimitedExecutor.__init__; gemini_last_call = 0 is long ago
InitExecutor(interval) ==
  /\ loaded = [w \in Workers |-> None]
  /\ serp_semaphore = MAX_CONCURRENT_SERP
  /\ gemini_semaphore = MAX_CONCURRENT_GEMINI
  /\ gemini_min_interval = interval
  /\ lock = 0
  /\ elapsed = interval
  /\ stats = [serp_calls |-> 0, gemini_calls |-> 0, gemini_retries |-> 0,
              errors |-> << >>]

InitThreads ==
  /\ pc = [w \in Workers |-> "idle"]
  /\ fn = [w \in Workers |-> "none"]
  /\ task = [w \in Workers |-> NoTask]
  /\ attempt = [w \in Workers |-> 0]
  /\ timer = [w \in Workers |-> 0]
  /\ page = [w \in Workers |-> 0]
  /\ results = [w \in Workers |-> << >>]
  /\ ret = [w \in Workers |-> NoRet]
  /\ exc = [w \in Workers |-> << >>]
  /\ raw = [w \in Workers |-> RawMsg(<< >>)]
  /\ result = [w \in Workers |-> NoResult]
  /\ calls = [w \in Workers |-> 0]
  /\ requests = 0
  /\ outcomes = [serp_returned |-> 0, gemini_returned |-> 0, raised |-> 0]
  /\ inv = [w \in Workers |-> 0]
  /\ allrate = [w \in Workers |-> TRUE]
  /\ retr = [w \in Workers |-> 0]
  /\ errs = [w \in Workers |-> 0]
  /\ page_log = [w \in Workers |-> << >>]
  /\ item_log = [w \in Workers |-> << >>]
  /\ gen_log = [w \in Workers |-> << >>]
  /\ repair_log = [w \in Workers |-> << >>]
  /\ since_invoke = gemini_min_interval

\* no text of the model is being cleaned
InitNoText ==
  /\ res_text = << >>
  /\ cleaned = None
  /\ decoded = NoRet

InitNoBatch ==
  /\ InitNoText
  /\ input_lines = << >>
  /\ entries = << >>
  /\ keywords = << >>
  /\ queue = << >>
  /\ futures = << >>
  /\ yielded = {}
  /\ all_results = << >>
  /\ ridx = 0
  /\ rendered = << >>
  /\ reports = << >>
  /\ shown = None
  /\ failing = {}
  /\ fetch_raised = {}

\* the direct callers' executor has any interval of the slider up to MaxInterval
InitExec ==
  /\ \E i \in 1..MaxInterval : InitExecutor(i)
  /\ InitThreads
  /\ InitNoBatch
  /\ mainpc = "direct"

SerpStep(w) ==
  \/ SerpAcquire(w)
  \/ SerpCountLoad(w)
  \/ SerpCount(w)
  \/ SerpReturn(w)
  \/ SerpErrorLock(w)
  \/ SerpRecordError(w)
  \/ SerpRaise(w)

GeminiStep(w) ==
  \/ GeminiAcquire(w)
  \/ GeminiGateLock(w)
  \/ GeminiGateSet(w)
  \/ GeminiInvoke(w)
  \/ GeminiCountLoad(w)
  \/ GeminiCount(w)
  \/ GeminiErrorLock(w)
  \/ GeminiRecordError(w)
  \/ GeminiExit(w)

\* the retry branch of call_gemini
GeminiRetryStep(w) ==
  \/ GeminiRetryLoad(w)
  \/ GeminiCountRetry(w)
  \/ GeminiBackoffDone(w)

ExecutorStep(w) ==
  \/ SerpStep(w)
  \/ GeminiStep(w)
  \/ GeminiRetryStep(w)

NextExec ==
  \/ Tick
  \/ \E w \in Workers :
       \/ DirectCall(w)
       \/ GenericSerpFunc(w)
       \/ GenericGeminiFunc(w)
       \/ DirectDone(w)
       \/ ExecutorStep(w)

SpecExec == InitExec /\ [][NextExec]_vars

\* ------------------------------------------------------------------ the batch run
\* what the search API answers to one page request
Item(link, title, snippet) ==
  [link |-> link, title |-> title, snippet |-> snippet, displayLink |-> link,
   og |-> None]
PlainItem == Item(<< "x", ".", "t", "w" >>, << "t" >>, << "s" >>)
\* in a batch run the API finds BatchItems items for a page, or none
BatchPage == [i \in 1..BatchItems |-> PlainItem]
SearchAnswers == { Raise(MsgTimeout), Ok(<< >>), Ok(BatchPage) }

\* what generate_content answers to the strategy prompt and to the repair prompt
GenerateAnswers ==
  { Ok(Text(TRUE, TRUE, FullReport)), Ok(Text(FALSE, TRUE, JNull)),
    Ok(Text(FALSE, TRUE, PartialReport)), Ok(BrokenText), Raise(MsgQuota) }
RepairAnswers ==
  { Ok(Text(TRUE, TRUE, FullReport)), Ok(Text(FALSE, TRUE, JObject({}))),
    Ok(Text(FALSE, TRUE, JNull)), Ok(BrokenText), Raise(MsgTimeout) }

\* the answers of a service that works: a page of items, the report asked for
\* the nominal answers: a page of results, a fenced report
NominalPage == Ok(BatchPage)
NominalText == Ok(Text(TRUE, TRUE, FullReport))

\* the services fail for at most MaxFailing keywords of a batch; for those
\* they answer as they like
Answers(w, nominal) ==
  IF nominal
    THEN UNCHANGED failing
    ELSE /\ task[w] \in failing \/ Cardinality(failing) < MaxFailing
         /\ failing' = failing \cup {task[w]}

Init ==
  /\ InitExecutor(GEMINI_MIN_INTERVAL)
  /\ InitThreads
  /\ InitNoText
  /\ input_lines = keywords_input
  /\ keywords = ParseKeywords(input_lines)
  /\ entries = [k \in 1..Len(keywords) |-> [runs |-> 0, serp |-> 0, gemini |-> 0]]
  /\ mainpc = "submit"
  /\ queue = << >>
  /\ futures = << >>
  /\ yielded = {}
  /\ all_results = << >>
  /\ ridx = 0
  /\ rendered = << >>
  /\ reports = << >>
  /\ shown = None
  /\ failing = {}
  /\ fetch_raised = {}

\* a step of pool thread w in a batch
TaskStep(w) ==
  \/ TaskStart(w)
  \/ \E a \in SearchAnswers : FetchPage(w, a) /\ Answers(w, a = NominalPage)
  \/ PageSleepDone(w)
  \/ AfterSerp(w)
  \/ \E a \in GenerateAnswers : AnalyzeGenerate(w, a) /\ Answers(w, a = NominalText)
  \/ \E a \in RepairAnswers : AnalyzeRepair(w, a) /\ Answers(w, a = NominalText)
  \/ AfterGemini(w)
  \/ SerpStep(w)
  \/ GeminiStep(w)

\* a step of the main thread in a batch
MainStep ==
  \/ Submit
  \/ Collect
  \/ ShowStats
  \/ Render

Next ==
  \/ Tick
  \/ MainStep
  \/ \E w \in Workers : TaskStep(w)

Spec == Init /\ [][Next]_vars

\* The func a keyword task passes to call_gemini is analyze_strategy_raw, which
\* catches every exception of generate_content (line 413) and raises nothing
\* but the KeyError of line 377; that is no rate-limit error, so a keyword
\* task never enters the retry branch and Next has no GeminiRetryStep.
PipelineNeverRetries ==
  \A w \in Workers : pc[w] \notin { "gemini_retry", "gemini_backoff" }

\* The batch with its scheduling: as long as time can pass or a thread can
\* take a step, a step is taken; a call of an external service is such a step,
\* so every call eventually returns or raises.  This is weaker than fairness
\* for each thread, which the operating system's scheduler gives.
SpecLive == Spec /\ WF_vars(Next)

\* ------------------------------------------------------------------ the button
\* The button is pressed on any text of up to MaxLines lines; the main thread
\* builds the keyword list and submits the tasks.
MaxLines == 4
LineSet ==
  { << "a" >>, << "b" >>, << " ", "b", " " >>, << >>, << " " >> }
InputLines == UNION { [1..n -> LineSet] : n \in 0..MaxLines }

\* lines 746-750: the keyword list; st.stop() when it is empty
ParseInput ==
  /\ mainpc = "input"
  /\ keywords' = ParseKeywords(input_lines)
  /\ mainpc' = IF keywords' = << >> THEN "stopped" ELSE "submit"
  /\ UNCHANGED << dvars, pc, wvars, hvars >>
  /\ UNCHANGED << tvars, input_lines, queue, futures, yielded, all_results, ridx, rendered, reports, shown, failing, fetch_raised >>

InitButton ==
  /\ InitExecutor(GEMINI_MIN_INTERVAL)
  /\ InitThreads
  /\ InitNoText
  /\ input_lines \in InputLines
  /\ entries = << >>
  /\ keywords = << >>
  /\ queue = << >>
  /\ futures = << >>
  /\ yielded = {}
  /\ all_results = << >>
  /\ ridx = 0
  /\ rendered = << >>
  /\ reports = << >>
  /\ shown = None
  /\ failing = {}
  /\ fetch_raised = {}
  /\ mainpc = "input"

NextButton ==
  \/ ParseInput
  \/ Submit

SpecButton == InitButton /\ [][NextButton]_vars

\* ------------------------------------------------------------------ one fetch
\* One thread calls executor.call_serp(get_serp_raw, ...) for MAX_PAGES pages;
\* the search API finds any number of items up to a full page, or raises.
Page(n) == [i \in 1..n |-> PlainItem]
\* or it finds one item whose snippet has a length around 200
SnippetLengths == { 0, 1, DescLimit - 1, DescLimit, DescLimit + 1, DescLimit + 2 }
Snippet(l) == [i \in 1..l |-> LowerCase[(i % 26) + 1]]
SnippetPage(l) == << Item(<< "x", ".", "t", "w" >>, << "t" >>, Snippet(l)) >>
\* or one item with a link and a title the classifier has rules for, also
\* several rules at once, or none
ClassifierLinks ==
  { << "p", "t", "t", ".", "c", "c", "/", "y", "o", "u", "t", "u", "b", "e", ".", "c", "o", "m" >>,
    << "Y", "o", "u", "T", "u", "b", "e", ".", "c", "o", "m", "/", "m", "o", "m", "o" >>,
    << "a", "m", "a", "z", "o", "n", "/", "n", "e", "w", "s", "/" >>,
    << "u", "d", "n", ".", "c", "o", "m", "/", "w", "i", "k", "i" >>,
    << "W", "i", "k", "i", ".", "t", "w" >>,
    << "m", "o", "f", ".", "g", "o", "v", ".", "t", "w" >>,
    << "g", "o", "v", ".", "u", "k", "/", "w", "i", "k", "i" >>,
    << "x", ".", "t", "w" >> }
ClassifierTitles ==
  { << "t" >>, << "A", "jia4", "ge2" >>, << "tui1", "jian4", "!" >> }
ClassifierPage(l, t) == << Item(l, t, << "s" >>) >>
\* or one item that carries pagemap.metatags[0]["og:description"] next to its
\* snippet, and one that has the snippet only
RichPage ==
  << [PlainItem EXCEPT !.og = Some(<< "o", "g" >>)], PlainItem >>
FetchAnswers ==
  { Raise(MsgTimeout) } \cup { Ok(Page(n)) : n \in 0..PageSize }
    \cup { Ok(SnippetPage(l)) : l \in SnippetLengths }
    \cup { Ok(ClassifierPage(l, t)) : l \in ClassifierLinks, t \in ClassifierTitles }
    \cup { Ok(RichPage) }

InitFetch ==
  /\ InitExecutor(GEMINI_MIN_INTERVAL)
  /\ InitThreads
  /\ InitNoBatch
  /\ mainpc = "fetch"

FetchCall(w) ==
  /\ mainpc = "fetch"
  /\ w = 1
  /\ pc[w] = "idle"
  /\ calls[w] = 0
  /\ calls' = Set(calls, w, 1)
  /\ fn' = Set(fn, w, "get_serp_raw")
  /\ pc' = Set(pc, w, "serp_acquire")
  /\ UNCHANGED << dvars, mvars >>
  /\ UNCHANGED << task, attempt, timer, page, results, ret, exc, raw, result >>
  /\ UNCHANGED << inv, allrate, retr, errs, since_invoke, outcomes, page_log, item_log, gen_log, repair_log, entries, requests >>

NextFetch ==
  \/ Tick
  \/ \E w \in Workers :
       \/ FetchCall(w)
       \/ SerpAcquire(w)
       \/ \E a \in FetchAnswers : FetchPage(w, a) /\ UNCHANGED failing
       \/ PageSleepDone(w)
       \/ SerpCountLoad(w)
       \/ SerpCount(w)
       \/ SerpReturn(w)
       \/ SerpErrorLock(w)
       \/ SerpRecordError(w)
       \/ SerpRaise(w)

SpecFetch == InitFetch /\ [][NextFetch]_vars

\* ------------------------------------------------------------------ cleaning the model's text
\* lines 405-407 of analyze_strategy_raw and 365-367 of repair_json: the text
\* of the model is stripped, its code-fence markers are replaced by nothing,
\* and json.loads parses what is left. Texts are sequences of characters;
\* "backtick" is the backtick character.
Fence == << "backtick", "backtick", "backtick" >>
FenceJson == Fence \o << "j", "s", "o", "n" >>

\* s.replace(old, ""): the occurrences of old, from the left, not overlapping
RECURSIVE Removed(_, _)
Removed(s, old) ==
  IF Len(s) < Len(old) THEN s
  ELSE IF SubSeq(s, 1, Len(old)) = old
    THEN Removed(SubSeq(s, Len(old) + 1, Len(s)), old)
    ELSE << Head(s) >> \o Removed(Tail(s), old)

\* raw = res.text.strip(); cleaned = raw.replace(FenceJson, "").replace(Fence, "").strip()
CleanedText(t) == Strip(Removed(Removed(Strip(t), FenceJson), Fence))

\* a JSON object with string members, as the list of its (key, value) pairs
JsonObject(members) == [kind |-> "object", members |-> members]

\* json.dumps of an object with at most one member
Dumps(o) ==
  IF o.members = << >> THEN << "{", "}" >>
  ELSE << "{", "\"" >> \o o.members[1][1] \o << "\"", ":", " ", "\"" >>
         \o o.members[1][2] \o << "\"", "}" >>

\* json.loads on texts that hold no comma, bracket, digit, backslash or
\* literal: the only JSON values such a text can be are the empty object and
\* an object with one string member; a string holds no control character
loads(s) ==
  LET q == { i \in 1..Len(s) : s[i] = "\"" }
      StringChars(str) == \A i \in 1..Len(str) : str[i] \notin { "\n", "\t", "\r" }
      nth(n) == CHOOSE i \in q : Cardinality({ j \in q : j <= i }) = n
  IN  IF q = {}
        THEN LET b == Strip(s)
             IN  IF Len(b) >= 2 /\ Head(b) = "{" /\ b[Len(b)] = "}"
                      /\ Strip(SubSeq(b, 2, Len(b) - 1)) = << >>
                   THEN Ok(JsonObject(<< >>))
                   ELSE Raise(MsgJson)
      ELSE IF Cardinality(q) = 4
        THEN LET key == SubSeq(s, nth(1) + 1, nth(2) - 1)
                 value == SubSeq(s, nth(3) + 1, nth(4) - 1)
             IN  IF /\ Strip(SubSeq(s, 1, nth(1) - 1)) = << "{" >>
                    /\ Strip(SubSeq(s, nth(2) + 1, nth(3) - 1)) = << ":" >>
                    /\ Strip(SubSeq(s, nth(4) + 1, Len(s))) = << "}" >>
                    /\ StringChars(key) /\ StringChars(value)
                   THEN Ok(JsonObject(<< << key, value >> >>))
                   ELSE Raise(MsgJson)
      ELSE Raise(MsgJson)

\* the objects the model answers with: empty, or one member whose value is a
\* string of up to MaxValueLen characters, also backticks, or holds a marker
MaxValueLen == 3
Values ==
  UNION { [1..n -> { "backtick", "x" }] : n \in 0..MaxValueLen }
    \cup { << "a" >> \o FenceJson, Fence \o << " ", "b" >> }
Objects ==
  { JsonObject(<< >>) } \cup { JsonObject(<< << << "k" >>, v >> >>) : v \in Values }

\* the model's text for a JSON text d: bare, or wrapped in code-fence markers
Wrapped(d) ==
  { FenceJson \o << "\n" >> \o d \o << "\n" >> \o Fence,
    Fence \o << "\n" >> \o d \o << "\n" >> \o Fence \o << "\n" >>,
    << " " >> \o Fence \o d \o Fence }
Responses(d) == { d } \cup Wrapped(d)

Cleaners == { "analyze_strategy_raw", "repair_json" }

InitClean ==
  /\ InitExecutor(GEMINI_MIN_INTERVAL)
  /\ InitThreads
  /\ \E o \in Objects : res_text \in Responses(Dumps(o))
  /\ cleaned = None
  /\ decoded = NoRet
  /\ input_lines = << >>
  /\ entries = << >>
  /\ keywords = << >>
  /\ queue = << >>
  /\ futures = << >>
  /\ yielded = {}
  /\ all_results = << >>
  /\ ridx = 0
  /\ rendered = << >>
  /\ reports = << >>
  /\ shown = None
  /\ failing = {}
  /\ fetch_raised = {}
  /\ mainpc \in Cleaners

\* lines 405-406, and 365-366 in repair_json
CleanText(f) ==
  /\ mainpc = f
  /\ cleaned = None
  /\ cleaned' = Some(CleanedText(res_text))
  /\ UNCHANGED << res_text, decoded, bvars, failing, fetch_raised >>
  /\ UNCHANGED << dvars, pc, wvars, hvars >>

\* json.loads of line 407, and of line 367
LoadsText(f) ==
  /\ mainpc = f
  /\ cleaned # None
  /\ decoded = NoRet
  /\ decoded' = loads(cleaned[1])
  /\ UNCHANGED << res_text, cleaned, bvars, failing, fetch_raised >>
  /\ UNCHANGED << dvars, pc, wvars, hvars >>

NextClean == \E f \in Cleaners : CleanText(f) \/ LoadsText(f)

SpecClean == InitClean /\ [][NextClean]_vars

\* ================================================================== properties
InsideSerp ==
  { w \in Workers : pc[w] \in { "serp_func", "serp_page_sleep", "serp_count",
                                "serp_sleep", "serp_except", "serp_raise" } }
InsideGemini ==
  { w \in Workers : pc[w] \in { "gemini_gate_lock", "gemini_gate_sleep", "gemini_loop",
                                "gemini_func", "gemini_repair", "gemini_count",
                                "gemini_retry", "gemini_backoff", "gemini_except",
                                "gemini_exit" } }

\* C1: the time between the starts of any two invocations of func made through
\* call_gemini is at least gemini_min_interval
C1_GenerateMinInterval ==
  [][\A w \in Workers :
       (pc[w] = "gemini_loop" /\ pc'[w] = "gemini_func")
         => since_invoke >= gemini_min_interval]_vars

\* C2: a call_gemini whose func raises a rate-limit error every time invokes
\* func 3 times, counts 2 retries, appends 1 error entry and re-raises; func is
\* never invoked a 4th time in one call
C2_RetryCeiling ==
  \A w \in Workers :
    /\ inv[w] <= 3
    /\ (pc[w] = "after_gemini" /\ allrate[w])
         => /\ inv[w] = 3
            /\ retr[w] = 2
            /\ errs[w] = 1
            /\ ret[w].kind = "raise"
            /\ is_rate_limit(ret[w].msg)

C2_Witness ==
  \E w \in Workers :
    pc[w] = "after_gemini" /\ allrate[w] /\ inv[w] = 3 /\ stats.gemini_retries = 2

\* C6: at most MAX_CONCURRENT_SERP threads are inside call_serp and at most
\* MAX_CONCURRENT_GEMINI inside call_gemini, and a thread waiting to enter
\* call_serp (call_gemini) can enter exactly when fewer than the limit are
\* inside call_serp (call_gemini), whatever the other count is
C6_IndependentLimits ==
  /\ Cardinality(InsideSerp) <= MAX_CONCURRENT_SERP
  /\ Cardinality(InsideGemini) <= MAX_CONCURRENT_GEMINI
  /\ \A w \in Workers :
       /\ pc[w] = "serp_acquire"
            => (ENABLED SerpAcquire(w) <=> Cardinality(InsideSerp) < MAX_CONCURRENT_SERP)
       /\ pc[w] = "gemini_acquire"
            => (ENABLED GeminiAcquire(w)
                  <=> Cardinality(InsideGemini) < MAX_CONCURRENT_GEMINI)

\* call_gemini is full and a thread is about to enter call_serp, which is free
C6_Witness ==
  \E w, v \in Workers :
    /\ pc[v] = "gemini_func"
    /\ gemini_semaphore = 0
    /\ pc[w] = "serp_acquire"
    /\ serp_semaphore = MAX_CONCURRENT_SERP

\* C7: whenever no thread is inside a call, each semaphore has all its permits
C7_SlotsReleased ==
  (InsideSerp = {} /\ InsideGemini = {})
    => /\ serp_semaphore = MAX_CONCURRENT_SERP
       /\ gemini_semaphore = MAX_CONCURRENT_GEMINI

\* both calls are over: call_gemini gave up after its retries, call_serp raised
C7_Witness ==
  /\ InsideSerp = {} /\ InsideGemini = {}
  /\ \A w \in Workers : pc[w] = "idle" /\ calls[w] = MaxCalls
  /\ stats.gemini_retries = 2
  /\ Len(stats.errors) = 2

\* the record of a keyword for which both services work
RECURSIVE BatchRows(_)
BatchRows(p) ==
  IF p = MAX_PAGES THEN << >>
  ELSE PageRows(StartIndex(p), BatchPage) \o BatchRows(p + 1)

NominalResult(kw) ==
  [keyword |-> kw,
   serp_raw |-> Some(BatchRows(0)),
   strategy |-> Some(FullReport),
   raw_response |-> Some(RawText(Text(TRUE, TRUE, FullReport))),
   error |-> None,
   timing |-> {"serp", "gemini"}]

\* C3: when the fetch of a keyword raises, its record carries an error and no
\* strategy, and every keyword for which the services work ends with the
\* record it has when it runs alone: its rows and a complete report, no error;
\* all_results holds these records when the batch is over
C3_BatchIsolation ==
  \A k \in 1..Len(futures) :
    futures[k] # None =>
      LET r == futures[k][1]
      IN  /\ k \in fetch_raised => (r.error # None /\ r.strategy = None)
          /\ k \notin failing => r = NominalResult(keywords[k])
          /\ mainpc = "done" => DictGet(all_results, keywords[k]) = futures[k]

\* the batch is over, the fetch of one keyword raised, all others have a report
C3_Witness ==
  /\ mainpc = "done"
  /\ Cardinality(fetch_raised) = 1
  /\ Len(reports) = Len(keywords) - 1

Pos(kw) == CHOOSE i \in 1..Len(keywords) : keywords[i] = kw

\* C4: the keywords are rendered, and their strategies appended to reports, in
\* the order of the keyword list, whatever the order of completion
C4_InputOrder ==
  /\ rendered = SubSeq(keywords, 1, Len(rendered))
  /\ \A i, j \in 1..Len(reports) :
       i < j => Pos(reports[i].Keyword) < Pos(reports[j].Keyword)
  /\ mainpc = "done" => rendered = keywords

\* everything is rendered and the first keyword was not the first to complete
C4_Witness ==
  /\ mainpc = "done"
  /\ Len(reports) = Len(keywords)
  /\ all_results[1].key # keywords[1]

HoldsStrategyReport(r) ==
  /\ r.strategy # None
  /\ r.strategy[1].kind = "object"
  /\ "error" \notin r.strategy[1].keys

HoldsErrorReport(r) ==
  \/ r.error # None
  \/ /\ r.strategy # None
     /\ r.strategy[1].kind = "object"
     /\ "error" \in r.strategy[1].keys

\* C5: after the batch every keyword has exactly one record in all_results and
\* the record holds a StrategyReport or an error, never none and never both
C5_ExactlyOneReport ==
  mainpc \in { "render", "done" } =>
    \A k \in 1..Len(keywords) :
      /\ Cardinality({ i \in 1..Len(all_results) : all_results[i].key = keywords[k] }) = 1
      /\ LET r == DictGet(all_results, keywords[k])[1]
         IN  HoldsStrategyReport(r) # HoldsErrorReport(r)

\* C8: in a keyword task, a rate-limit error of generate_content is followed by
\* a retry of the generate call, counted in gemini_retries, before the call is
\* over
C8_PipelineRetries ==
  \A w \in Workers :
    (pc[w] = "after_gemini" /\ task[w] # NoTask /\ gen_log[w] # << >>
       /\ gen_log[w][1] = "rate")
      => (inv[w] >= 2 /\ retr[w] >= 1)

\* C9: after a page for which the search API returned no items, no further
\* page is requested
C9_ShortCircuit ==
  \A w \in Workers :
    \A i \in 1..Len(page_log[w]) : page_log[w][i] = 0 => i = Len(page_log[w])

\* the rows get_serp_raw has so far, or has returned
Rows(w) == IF ret[w].kind = "ok" THEN ret[w].val[1] ELSE results[w]
Ranks(rows) == [i \in 1..Len(rows) |-> rows[i].Rank]

\* the absolute positions of the items of the pages logged, from page p on
RECURSIVE Positions(_, _)
Positions(log, p) ==
  IF log = << >> THEN << >>
  ELSE [i \in 1..Max(Head(log), 0) |-> PageSize * p + i] \o Positions(Tail(log), p + 1)

\* C10: the ranks of a keyword's rows are unique and are the absolute positions
\* of the items; when every page has 10 items they are 1..10P in order
C10_RankContinuity ==
  \A w \in Workers :
    LET ranks == Ranks(Rows(w))
    IN  /\ \A i, j \in 1..Len(ranks) : i # j => ranks[i] # ranks[j]
        /\ ranks = Positions(page_log[w], 0)
        /\ page_log[w] = [p \in 1..MAX_PAGES |-> PageSize]
             => ranks = [i \in 1..(PageSize * MAX_PAGES) |-> i]

\* every page was full and get_serp_raw has returned
C10_Witness ==
  \E w \in Workers :
    /\ pc[w] = "after_serp"
    /\ page_log[w] = [p \in 1..MAX_PAGES |-> PageSize]
    /\ Len(Rows(w)) = PageSize * MAX_PAGES


\* the example of the text: a, b, a, " b "
ExampleLines == << << "a" >>, << "b" >>, << "a" >>, << " ", "b", " " >> >>

\* the first line of the text area that is x once trimmed
FirstLine(x) ==
  CHOOSE i \in 1..Len(input_lines) :
    /\ Strip(input_lines[i]) = x
    /\ \A j \in 1..(i - 1) : Strip(input_lines[j]) # x

\* C11: the keyword list is the lines trimmed, without the empty ones and
\* without later duplicates, in the order of first occurrence (a, b, a, " b "
\* gives a, b), and one task is submitted per element of the list
C11_Deduplication ==
  mainpc # "input" =>
    /\ \A i \in 1..Len(keywords) :
         /\ keywords[i] # << >>
         /\ Head(keywords[i]) \notin Whitespace
         /\ keywords[i][Len(keywords[i])] \notin Whitespace
         /\ \E j \in 1..Len(input_lines) : Strip(input_lines[j]) = keywords[i]
    /\ \A j \in 1..Len(input_lines) :
         Strip(input_lines[j]) # << >>
           => \E i \in 1..Len(keywords) : keywords[i] = Strip(input_lines[j])
    /\ \A i, j \in 1..Len(keywords) :
         i < j => /\ keywords[i] # keywords[j]
                  /\ FirstLine(keywords[i]) < FirstLine(keywords[j])
    /\ input_lines = ExampleLines => keywords = << << "a" >>, << "b" >> >>
    /\ Len(futures) <= Len(keywords)
    /\ queue = [i \in 1..Len(futures) |-> i]
    /\ mainpc = "collect" => Len(futures) = Len(keywords)
    /\ mainpc = "stopped" => (keywords = << >> /\ futures = << >>)

\* the example was typed and its two tasks are submitted
C11_Witness ==
  /\ input_lines = ExampleLines
  /\ mainpc = "collect"
  /\ Len(queue) = 2


\* C12: a description longer than 200 characters is stored as its first 200
\* characters followed by the 3 characters "...", 203 in all; a description of
\* at most 200 characters is stored unchanged
C12_DescriptionTruncation ==
  \A w \in Workers :
    LET rows == Rows(w)
    IN  /\ Len(rows) = Len(item_log[w])
        /\ \A i \in 1..Len(rows) :
             LET d == rows[i].Description
                 s == item_log[w][i].snippet
             IN  IF Len(s) > 200
                   THEN /\ Len(d) = 203
                        /\ \A k \in 1..200 : d[k] = s[k]
                        /\ \A k \in 201..203 : d[k] = "."
                   ELSE d = s

\* a snippet of 201 characters and one of 200 were stored by one fetch
C12_Witness ==
  \E w \in Workers :
    /\ pc[w] = "after_serp"
    /\ ret[w].kind = "ok"
    /\ \E i, j \in 1..Len(item_log[w]) :
         /\ Len(item_log[w][i].snippet) = 201
         /\ Len(item_log[w][j].snippet) = 200
         /\ Len(Rows(w)[i].Description) = 203


\* generate_content raised in the thread's analyze_strategy_raw
GenerateRaised(w) ==
  /\ gen_log[w] # << >>
  /\ gen_log[w][Len(gen_log[w])] \in { "rate", "other" }

\* the thread's call_gemini returned an ErrorReport with the message m
ReturnedErrorReport(w, m) ==
  /\ ret[w].kind = "ok"
  /\ ret[w].val[1][1] = ErrorOnly(m)
  /\ ret[w].val[1][2] = RawMsg(m)

\* an exception of generate_content is returned as an ErrorReport with its message
C13_ApiErrorsReturned ==
  \A w \in Workers :
    (task[w] # NoTask /\ pc[w] = "after_gemini" /\ GenerateRaised(w))
      => \E m \in { MsgQuota, MsgTimeout, Msg429 } : ReturnedErrorReport(w, m)

\* C13: analyze_strategy_raw never raises to its caller, and an exception of
\* generate_content that is no parse failure is returned as an ErrorReport
\* with the exception's message
C13_NeverRaises ==
  /\ C13_ApiErrorsReturned
  /\ \A w \in Workers :
       (task[w] # NoTask /\ fn[w] = "analyze_strategy_raw")
         => /\ pc[w] \notin { "gemini_except", "gemini_retry", "gemini_backoff" }
            /\ pc[w] = "after_gemini" => ret[w].kind = "ok"


\* the value repair_json returned is not null
NonNull(f) == f # None /\ f[1] # JNull

\* the text of the model failed to parse: repair_json is called once, with that
\* text and the parse error, and its value, when Accepted, is the report;
\* otherwise the report is an ErrorReport with the parse error and the text
RepairContract(w, Accepted(_)) ==
  /\ Len(repair_log[w]) <= 1
  /\ pc[w] = "gemini_repair"
       => (repair_log[w] = << >> /\ ~raw[w].text[1].valid /\ exc[w] = MsgJson)
  /\ (ret[w].kind = "ok" /\ fn[w] = "analyze_strategy_raw")
       => LET report == ret[w].val[1][1]
              text == ret[w].val[1][2]
          IN  /\ (text.text # None /\ ~text.text[1].valid) <=> Len(repair_log[w]) = 1
              /\ Len(repair_log[w]) = 1
                   => LET r == repair_log[w][1]
                      IN  /\ r.broken_text = text
                          /\ r.error = MsgJson
                          /\ report = IF Accepted(r.fixed) THEN r.fixed[1]
                                      ELSE ErrorWithRaw(MsgJson, text)

\* C14 as stated: every non-null value of repair_json is returned as the report
C14_RepairNonNull ==
  \A w \in Workers : task[w] # NoTask => RepairContract(w, NonNull)

\* C14: after a parse failure repair_json is called exactly once with the
\* failing text and the parse error; a value of repair_json that is truthy
\* (not null, not an empty object) is returned as the report, and for null or
\* another falsy value the generator returns an ErrorReport with the parse
\* error and the raw text
C14_RepairOnce ==
  \A w \in Workers : task[w] # NoTask => RepairContract(w, LAMBDA f : f # None /\ Truthy(f[1]))

\* repair_json returned a report after a parse failure, and it was returned
C14_Witness ==
  \E w \in Workers :
    /\ task[w] # NoTask
    /\ pc[w] = "after_gemini"
    /\ ret[w].kind = "ok"
    /\ Len(repair_log[w]) = 1
    /\ repair_log[w][1].fixed = Some(FullReport)
    /\ ret[w].val[1][1] = FullReport


\* the thread's task is at its second step, the call of call_gemini
AtGenerate(w) == task[w] # NoTask /\ fn[w] = "analyze_strategy_raw"

\* C15: in a keyword task call_gemini starts only when call_serp has returned,
\* and analyses the rows it returned; when call_serp raises call_gemini is
\* never called, the exception becomes the error of the result, and the task
\* returns its result
C15_SequentialSteps ==
  /\ \A w \in Workers :
       /\ (task[w] # NoTask /\ ~AtGenerate(w))
            => /\ gen_log[w] = << >>
               /\ w \notin InsideGemini
               /\ pc[w] \notin { "gemini_acquire", "after_gemini" }
               /\ result[w].serp_raw = None
       /\ AtGenerate(w)
            => /\ task[w] \notin fetch_raised
               /\ -1 \notin { page_log[w][i] : i \in 1..Len(page_log[w]) }
               /\ Len(page_log[w]) = MAX_PAGES
               /\ result[w].serp_raw # None
               /\ Len(result[w].serp_raw[1]) = Len(item_log[w])
               /\ \A i \in 1..Len(item_log[w]) :
                    result[w].serp_raw[1][i].URL = item_log[w][i].link
               /\ "serp" \in result[w].timing
  /\ \A k \in 1..Len(futures) :
       (futures[k] # None /\ k \in fetch_raised)
         => LET r == futures[k][1]
            IN  /\ r.keyword = keywords[k]
                /\ r.error = Some(MsgTimeout)
                /\ r.serp_raw = None
                /\ r.strategy = None
                /\ r.raw_response = None
                /\ r.timing = {}

\* one task analyses the rows of its fetch while the fetch of another has raised
C15_Witness ==
  \E w \in Workers :
    /\ AtGenerate(w)
    /\ pc[w] = "gemini_func"
    /\ Len(result[w].serp_raw[1]) = MAX_PAGES * BatchItems
    /\ fetch_raised # {}


\* the batch is over: every task has returned, the pool threads are free, the
\* main thread has left the pool block and shown the results
BatchOver ==
  /\ mainpc = "done"
  /\ \A k \in 1..Len(keywords) : futures[k] # None
  /\ queue = << >>
  /\ \A w \in Workers : pc[w] = "idle"
  /\ lock = 0
  /\ serp_semaphore = MAX_CONCURRENT_SERP
  /\ gemini_semaphore = MAX_CONCURRENT_GEMINI

C17_NoTaskRetry ==
  \A k \in 1..Len(keywords) :
    /\ entries[k].runs <= 1
    /\ entries[k].serp <= entries[k].runs
    /\ entries[k].gemini <= entries[k].serp
    /\ (k <= Len(futures) /\ futures[k] # None)
         => /\ entries[k].runs = 1
            /\ entries[k].serp = 1
            /\ k \in fetch_raised => entries[k].gemini = 0
    /\ mainpc \in { "render", "done" } => entries[k].runs = 1

\* the batch is over and the search of a keyword has failed
C17_Witness ==
  /\ mainpc = "done"
  /\ \E k \in fetch_raised : entries[k].serp = 1
  /\ \E k \in 1..Len(keywords) : entries[k].gemini = 1

\* the places where a thread is inside a with-block of self.lock that updates
\* the stats (lines 111-112, 116-117, 135-136, 144-145, 148-149)
StatsBlocks ==
  { "serp_count", "serp_except", "gemini_count", "gemini_retry", "gemini_except" }

\* a step that changes the stats is the step of a thread that holds the lock
\* and leaves its with-block by it
MutatedUnderLock ==
  stats' # stats =>
    \E w \in Workers :
      /\ lock = w
      /\ pc[w] \in StatsBlocks
      /\ pc'[w] # pc[w]
      /\ lock' = 0

\* the expander reads the stats when the pool threads have all finished, and
\* only then
ReadAfterJoin ==
  /\ shown' # shown => (Joined /\ shown' = Some(stats))
  /\ (mainpc \in { "submit", "collect", "stats" }) => shown = None

\* what is shown counts every outcome of the batch's calls
NoLostUpdate ==
  shown # None =>
    /\ shown[1] = stats
    /\ shown[1].serp_calls = outcomes.serp_returned
    /\ shown[1].gemini_calls = outcomes.gemini_returned
    /\ Len(shown[1].errors) = outcomes.raised

StatsContended ==
  \E v, w \in Workers :
    /\ v # w
    /\ loaded[v] # None
    /\ pc[w] \in StatsBlocks
    /\ loaded[w] = None

\* the labels in the order of their rules, and for an item which of the six
\* rules it matches: four link rules, the wiki link rule and the title rule
Labels ==
  << "UGC / Forum", "Social / Video", "E-commerce", "Media", "Wiki",
     "Commercial Content", "General" >>
Has(s, marks) == \E x \in marks : Contains(s, x)
LinkHas(item, marks) == LET link == Lower(item.link) IN Has(link, marks)
TitleHas(item, marks) == LET title == Lower(item.title) IN Has(title, marks)
Matches(item) ==
  LET link == Lower(item.link)
      title == Lower(item.title)
  IN  << Has(link, ForumLinks), Has(link, SocialLinks), Has(link, ShopLinks),
         Has(link, MediaLinks), Has(link, {WikiLink}), Has(title, PriceTitles) >>

\* the label of the first rule that matches, the last label when none does
FirstMatch(item) ==
  LET m == Matches(item)
      hit == { i \in 1..6 : m[i] }
  IN  IF hit = {} THEN Labels[7]
      ELSE Labels[CHOOSE i \in hit : \A j \in hit : i <= j]

YouTube == << "y", "o", "u", "t", "u", "b", "e", ".", "c", "o", "m" >>

\* C19: every row get_serp_raw returns carries exactly one label, that of the
\* first rule in priority order its item matches, the link rules before the title rule: an
\* item with a "youtube.com" link (and no forum link) and a price keyword in
\* its title is Social / Video, not Commercial Content; an item matching no
\* rule is General; equal items get equal labels
C19_FirstMatchWins ==
  \A w \in Workers :
    LET rows == Rows(w)
        items == item_log[w]
    IN  (pc[w] = "after_serp" /\ ret[w].kind = "ok") =>
        /\ Len(rows) = Len(items)
        /\ \A i \in 1..Len(rows) :
             LET m == Matches(items[i])
             IN  /\ rows[i].Type \in { Labels[k] : k \in 1..7 }
                 /\ rows[i].Type = FirstMatch(items[i])
                 /\ (LinkHas(items[i], {YouTube}) /\ m[6]) =>
                      /\ rows[i].Type # "Commercial Content"
                      /\ ~m[1] => rows[i].Type = "Social / Video"
                 /\ (\A k \in 1..6 : ~m[k]) => rows[i].Type = "General"
        /\ \A i \in 1..Len(rows) :
             /\ \A j \in 1..Len(rows) :
                  (items[i].link = items[j].link /\ items[i].title = items[j].title)
                    => rows[i].Type = rows[j].Type

\* one fetch has labelled a YouTube link with a price title and an item that
\* matches no rule
C19_Witness ==
  \E w \in Workers :
    /\ pc[w] = "after_serp"
    /\ ret[w].kind = "ok"
    /\ \E i, j \in 1..Len(item_log[w]) :
         /\ LinkHas(item_log[w][i], {YouTube})
         /\ ~LinkHas(item_log[w][i], ForumLinks)
         /\ TitleHas(item_log[w][i], PriceTitles)
         /\ Rows(w)[i].Type = "Social / Video"
         /\ \A k \in 1..6 : ~Matches(item_log[w][j])[k]
         /\ Rows(w)[j].Type = "General"

GovLink == << ".", "g", "o", "v" >>

\* C20: an item with a government link that matches none of the forum, social,
\* e-commerce and media rules gets the government label, ahead of the wiki
\* and title rules, so none of the other seven labels
C20_GovernmentRule ==
  \A w \in Workers :
    \A i \in 1..Len(Rows(w)) :
      (/\ i <= Len(item_log[w])
       /\ LinkHas(item_log[w][i], {GovLink})
       /\ LET m == Matches(item_log[w][i]) IN \A k \in 1..4 : ~m[k])
        => Rows(w)[i].Type \notin { Labels[k] : k \in 1..7 }

\* C21: when the model's text is valid JSON wrapped in code-fence markers,
\* cleaning and parsing it gives the object that parsing the bare JSON gives,
\* for every JSON object
C21_FenceRoundTrip ==
  decoded # NoRet =>
    \A o \in Objects :
      res_text \in Wrapped(Dumps(o)) => (loads(Dumps(o)) = Ok(o) /\ decoded = Ok(o))

\* the round trip of the objects whose strings hold no code-fence marker, and
\* of every bare text
FenceFree(o) == \A i \in 1..Len(o.members) : ~Contains(o.members[i][2], Fence)
PlainRoundTrip ==
  decoded # NoRet =>
    \A o \in Objects :
      ((FenceFree(o) /\ res_text \in Wrapped(Dumps(o))) \/ (FenceFree(o) /\ res_text = Dumps(o)))
        => decoded = Ok(o)

\* C22: the description stored for an item that carries the richer description
\* field is taken from that field; the snippet is used when the field is absent
C22_RichDescription ==
  \A w \in Workers :
    (pc[w] = "after_serp" /\ ret[w].kind = "ok") =>
      \A i \in 1..Len(Rows(w)) :
        LET item == item_log[w][i]
        IN  IF item.og # None
              THEN Rows(w)[i].Description = item.og[1]
              ELSE Rows(w)[i].Description = Description(item)

\* does the lower-cased text hold "429", "quota", "rate" or "limit"
HoldsRateWord(m) ==
  LET text == Lower(m)
  IN  \/ Contains(text, << "4", "2", "9" >>)
      \/ Contains(text, << "q", "u", "o", "t", "a" >>)
      \/ Contains(text, << "r", "a", "t", "e" >>)
      \/ Contains(text, << "l", "i", "m", "i", "t" >>)

\* C23: in call_gemini an error counts as rate-limited exactly when its
\* lower-cased text holds "429", "quota", "rate" or "limit"; an error that is
\* not rate-limited is not retried: one error entry is recorded for it and it
\* is re-raised, and when it is the first error of the call the function was
\* invoked once and gemini_retries is unchanged
C23_RateLimitClass ==
  \A w \in Workers :
    /\ pc[w] = "gemini_retry" => HoldsRateWord(exc[w])
    /\ (pc[w] = "gemini_except" /\ attempt[w] < max_retries - 1) => ~HoldsRateWord(exc[w])
    /\ (pc[w] = "after_gemini" /\ ret[w].kind = "raise" /\ ~HoldsRateWord(ret[w].msg))
         => /\ errs[w] = 1
            /\ inv[w] = retr[w] + 1
            /\ ret[w].msg = exc[w]
            /\ \E i \in 1..Len(stats.errors) : stats.errors[i] = GeminiPrefix \o ret[w].msg
            /\ ~allrate[w]
            /\ retr[w] = 0 => inv[w] = 1

\* a call whose function raised "timeout" at once has ended: one invocation,
\* one error entry, no retry
C23_Witness ==
  \E w \in Workers :
    /\ pc[w] = "after_gemini"
    /\ ret[w] = Raise(MsgTimeout)
    /\ inv[w] = 1
    /\ stats.gemini_retries = 0
    /\ stats.errors = << GeminiPrefix \o MsgTimeout >>

\* C24: a JSON answer of the model that is valid but lacks a field of the
\* report goes through JSON Repair as a parse failure does; it is never taken
\* as a StrategyReport: what analyze_strategy_raw returns as a report, and
\* what the page shows as one, has every field
C24_SchemaChecked ==
  /\ \A w \in Workers :
       (pc[w] = "after_gemini" /\ task[w] # NoTask /\ ret[w].kind = "ok") =>
         LET strategy == ret[w].val[1][1]
             text == ret[w].val[1][2].text
         IN  /\ (strategy.kind = "object" /\ "error" \notin strategy.keys)
                  => SchemaKeys \subseteq strategy.keys
             /\ (text # None /\ text[1].valid /\ ~(SchemaKeys \subseteq text[1].json.keys))
                  => repair_log[w] # << >>
  /\ \A i \in 1..Len(reports) : SchemaKeys \subseteq reports[i].strategy.keys

\* the keywords whose task has started and has not finished, and those whose
\* task has finished
InExecution == { k \in 1..Len(futures) : entries[k].runs > 0 /\ futures[k] = None }
Finished == { k \in 1..Len(futures) : futures[k] # None }

\* C25: the pool has max(MAX_CONCURRENT_SERP, MAX_CONCURRENT_GEMINI) + 1
\* threads during the whole batch: never more keyword tasks than that are in
\* execution, each on a thread of its own, the tasks start in the order of
\* submission, and a keyword beyond that number has started only when an
\* earlier task has finished
C25_PoolSize ==
  LET size == Max(MAX_CONCURRENT_SERP, MAX_CONCURRENT_GEMINI) + 1
  IN  /\ Cardinality(Workers) = size
      /\ Cardinality(InExecution) <= size
      /\ InExecution = { task[w] : w \in { v \in Workers : task[v] # NoTask } }
      /\ \A v, w \in Workers : (v # w /\ task[v] # NoTask) => task[v] # task[w]
      /\ \A k \in 1..Len(futures) :
           /\ (entries[k].runs > 0) => \A j \in 1..k : entries[j].runs > 0
           /\ (k > size /\ entries[k].runs > 0)
                => \E j \in 1..(k - 1) : j \in Finished

\* every thread of the pool runs a task while a keyword waits in the queue,
\* and later that keyword runs
C25_Witness ==
  /\ Cardinality(InExecution) = Max(MAX_CONCURRENT_SERP, MAX_CONCURRENT_GEMINI) + 1
  /\ queue # << >>
  /\ Len(futures) = NumKeywords

\* thread w writes self.gemini_last_call in this step (line 128)
WritesLastCall(w) == pc[w] = "gemini_gate_sleep" /\ pc'[w] = "gemini_loop"

\* C26: gemini_last_call is written by a thread that holds the lock since it
\* read the elapsed time, at least gemini_min_interval after the write before
\* it, whichever thread made that one, so the values written never decrease;
\* nothing else sets the timestamp
C26_LastCallSpacing ==
  [][LET spaced ==
           \A w \in Workers :
             WritesLastCall(w) =>
               /\ lock = w
               /\ elapsed >= gemini_min_interval
               /\ elapsed' = 0
               /\ lock' = 0
         only == (elapsed' < elapsed) => \E w \in Workers : WritesLastCall(w)
         held == \A w \in Workers : (pc[w] = "gemini_gate_sleep") => lock = w
     IN  spaced /\ only /\ held]_vars

\* a thread has written the timestamp after the call of another thread, which
\* wrote it before, is over
C26_Witness ==
  \E v, w \in Workers :
    /\ v # w
    /\ pc[v] = "after_gemini"
    /\ pc[w] = "gemini_loop"
    /\ inv[w] = 0
    /\ elapsed = 0
    /\ gemini_min_interval > 1

\* the places of a thread between its acquire and its release of the
\* generate semaphore
HoldsGeminiSlot ==
  { "gemini_gate_lock", "gemini_gate_sleep", "gemini_loop", "gemini_func",
    "gemini_repair", "gemini_count", "gemini_retry", "gemini_backoff",
    "gemini_except", "gemini_exit" }

\* C27: a call_gemini passes the minimum-interval gate once, before its first
\* attempt: the gate is entered only from the acquire of the semaphore and
\* left only to the first attempt; a retry goes from its backoff sleep to the
\* next attempt without the gate, leaving the timestamp and the lock alone;
\* the semaphore slot is given back only when the call ends, so it is held
\* across all attempts and backoff sleeps
C27_GateOnce ==
  [][\A w \in Workers :
       LET moved == pc'[w] # pc[w]
       IN  /\ (moved /\ pc'[w] = "gemini_gate_lock") => pc[w] = "gemini_acquire"
           /\ WritesLastCall(w) => (inv[w] = 0 /\ attempt'[w] = 0)
           /\ (moved /\ pc'[w] = "gemini_loop")
                => \/ pc[w] = "gemini_gate_sleep"
                   \/ /\ pc[w] = "gemini_backoff"
                      /\ inv[w] > 0
                      /\ elapsed' = elapsed
                      /\ lock' = lock
           /\ (pc[w] \in { "gemini_retry", "gemini_backoff" } /\ moved)
                => (pc'[w] \in { "gemini_backoff", "gemini_loop" } /\ elapsed' = elapsed)
           /\ (pc[w] \in HoldsGeminiSlot /\ pc'[w] \notin HoldsGeminiSlot)
                => (pc[w] = "gemini_exit" /\ gemini_semaphore' = gemini_semaphore + 1)
           /\ (pc[w] \in HoldsGeminiSlot /\ pc'[w] \in HoldsGeminiSlot /\ moved)
                => gemini_semaphore' = gemini_semaphore]_vars

\* a retry invokes the function while less than the minimum interval has
\* passed since the call went through the gate, the slot still taken
C27_Witness ==
  \E w \in Workers :
    /\ pc[w] = "gemini_func"
    /\ inv[w] = 2
    /\ elapsed < gemini_min_interval
    /\ gemini_semaphore = MAX_CONCURRENT_GEMINI - 1

\* the places where a thread waits for a semaphore, and those between the
\* acquire and the release of the search semaphore
WaitsForSlot == { "serp_acquire", "gemini_acquire" }
HoldsSerpSlot ==
  { "serp_func", "serp_page_sleep", "serp_count", "serp_sleep", "serp_except",
    "serp_raise" }

\* a thread that holds the lock can go on without a semaphore: its next step
\* is enabled, or will be when its sleep is over
HolderGoesOn(w) ==
  \/ pc[w] = "gemini_gate_sleep" /\ (timer[w] > 0 \/ ENABLED GeminiGateSet(w))
  \/ pc[w] = "serp_count" /\ ENABLED SerpCount(w)
  \/ pc[w] = "serp_except" /\ ENABLED SerpRecordError(w)
  \/ pc[w] = "gemini_count" /\ ENABLED GeminiCount(w)
  \/ pc[w] = "gemini_retry" /\ ENABLED GeminiCountRetry(w)
  \/ pc[w] = "gemini_except" /\ ENABLED GeminiRecordError(w)

\* the lock is held only by a thread that holds a semaphore slot and waits for
\* none
LockInsideSlot ==
  \A w \in Workers :
    /\ lock = w => /\ pc[w] \in HoldsSerpSlot \cup HoldsGeminiSlot
                   /\ pc[w] \notin WaitsForSlot
                   /\ HolderGoesOn(w)
    /\ pc[w] = "gemini_gate_sleep" => lock = w

\* a step that takes a slot or gives one back is made without the lock, and
\* while a thread sleeps at the gate no step changes the stats
LockAroundSleep ==
  /\ \A w \in Workers :
       ((pc[w] \in WaitsForSlot /\ pc'[w] \notin WaitsForSlot)
          \/ (pc[w] \notin { "after_serp", "after_gemini" }
                /\ pc'[w] \in { "after_serp", "after_gemini" }))
         => (lock # w /\ lock' # w)
  /\ (\E w \in Workers : pc[w] = "gemini_gate_sleep") => stats' = stats

\* C28: no thread waits for a semaphore while it holds the lock: the lock is
\* taken after a slot and given back before the slot, and its holder can
\* always go on, so there is no circular wait; the lock is held for the whole
\* sleep of the minimum-interval gate, and no stats counter changes meanwhile
C28_LockOrder == []LockInsideSlot /\ [][LockAroundSleep]_vars

\* a thread sleeps at the gate with the lock while another, inside call_serp,
\* waits for the lock to record its error
C28_Witness ==
  \E v, w \in Workers :
    /\ pc[w] = "gemini_gate_sleep"
    /\ timer[w] > 0
    /\ lock = w
    /\ pc[v] = "serp_except"
    /\ serp_semaphore = MAX_CONCURRENT_SERP - 1
    /\ gemini_semaphore = MAX_CONCURRENT_GEMINI - 1

\* C29: serp_calls counts the fetches that went through the executor, not
\* the page requests sent to the search API: when the batch of K keywords
\* has ended and every fetch succeeded over its MAX_PAGES pages, serp_calls is
\* K while K * MAX_PAGES requests were issued; and the search semaphore
\* bounds the keyword fetches in progress, a fetch holding its slot from its
\* first page through the pauses between pages to the end of the delay that
\* follows the call.
AllFetched ==
  /\ fetch_raised = {}
  /\ outcomes.serp_returned = Len(keywords)

FetchesNotRequests ==
  (Joined /\ AllFetched) =>
    /\ stats.serp_calls = Len(keywords)
    /\ requests = Len(keywords) * MAX_PAGES

SlotPerFetch ==
  /\ Cardinality({ w \in Workers : pc[w] \in HoldsSerpSlot }) <= MAX_CONCURRENT_SERP
  /\ serp_semaphore
       = MAX_CONCURRENT_SERP - Cardinality({ w \in Workers : pc[w] \in HoldsSerpSlot })
  /\ \A w \in Workers :
       pc[w] \in { "serp_func", "serp_page_sleep", "serp_count", "serp_sleep" }
         => pc[w] \in HoldsSerpSlot

C29_FetchesCounted == FetchesNotRequests /\ SlotPerFetch

C29_Witness ==
  /\ mainpc = "done"
  /\ AllFetched
  /\ Len(keywords) = NumKeywords
  /\ stats.serp_calls = NumKeywords
  /\ requests = NumKeywords * MAX_PAGES
  /\ requests > stats.serp_calls

====
